---- MODULE Spec2Model ----
(***************************************************************************)
(* A model of repo-brief's stage orchestrator, run_briefing_loop           *)
(* (src/src/repo_brief/agents_workflow.py), with the budget accounting of  *)
(* src/src/repo_brief/budget.py and the context build of                   *)
(* src/src/repo_brief/github_client.py.                                    *)
(*                                                                         *)
(* Money is counted exactly, in units of 1e-7 USD (one tenth of a          *)
(* micro-dollar): a price of 0.40 USD per 1M tokens is 4 units per token.  *)
(* The code computes the same quantities in binary floating point.         *)
(***************************************************************************)
EXTENDS Integers, Sequences, FiniteSets, TLC

\* ------------------------------------------------------------------ bounds
\* largest max_iters a run is started with
MaxItersBound == 2
\* largest max_tokens ceiling a run is started with
MaxTokensBound == 4

\* -------------------------------------------------------------- JSON values
\* A JSON value is a record [t, v]: t is the Python type json.loads yields.
JStr(s) == [t |-> "str", v |-> s]
JInt(s) == [t |-> "int", v |-> s]
JList(items) == [t |-> "list", v |-> items]
JDict(d) == [t |-> "dict", v |-> d]
JNull == [t |-> "null", v |-> ""]
JSONDecodeError == [t |-> "JSONDecodeError", v |-> ""]

\* The texts the engine answers with in this model.
TxtDone == "{\"briefing_markdown\": \"brief\", \"files_to_inspect\": []}"
TxtMore == "{\"briefing_markdown\": \"brief2\", \"files_to_inspect\": [\"a.py\"]}"
TxtNoFilesKey == "{\"briefing_markdown\": \"deep\"}"
TxtPlan == "{\"reading_plan_markdown\": \"plan\"}"
TxtProse == "not json"
TxtArray == "[\"a.py\"]"
TxtNullFiles == "{\"briefing_markdown\": \"b\", \"files_to_inspect\": null}"
TxtIntFiles == "{\"briefing_markdown\": \"b\", \"files_to_inspect\": [1]}"
TxtBlank == "  "
TxtFilesOnly == "{\"files_to_inspect\": [\"README.md\"]}"
TxtFencedObject == "{\"briefing_markdown\": \"fenced\", \"files_to_inspect\": [\"b.py\"]}"
\* FENCE stands for the three backquotes of a Markdown code fence
TxtFenced == "FENCEjson\n{\"briefing_markdown\": \"fenced\", \"files_to_inspect\": [\"b.py\"]}\nFENCE"
TxtEmbeddedObject == "{\"briefing_markdown\": \"embedded\", \"files_to_inspect\": [\"c.py\"]}"
TxtEmbedded == "Preface\n{\"briefing_markdown\": \"embedded\", \"files_to_inspect\": [\"c.py\"]}\nPostscript"
TxtBroken == "not valid {\"briefing_markdown\": invalid } text"

ModelTexts ==
    {TxtDone, TxtMore, TxtNoFilesKey, TxtPlan, TxtProse,
     TxtNullFiles, TxtIntFiles, TxtBlank, TxtFilesOnly}

\* json.loads on the texts above: the parsed value, or JSONDecodeError.
JsonLoads(text) ==
    CASE text = TxtDone ->
            JDict(("briefing_markdown" :> JStr("brief"))
                  @@ ("files_to_inspect" :> JList(<<>>)))
      [] text = TxtMore ->
            JDict(("briefing_markdown" :> JStr("brief2"))
                  @@ ("files_to_inspect" :> JList(<<JStr("a.py")>>)))
      [] text = TxtNoFilesKey ->
            JDict("briefing_markdown" :> JStr("deep"))
      [] text = TxtPlan ->
            JDict("reading_plan_markdown" :> JStr("plan"))
      [] text = TxtArray -> JList(<<JStr("a.py")>>)
      [] text = TxtFilesOnly ->
            JDict("files_to_inspect" :> JList(<<JStr("README.md")>>))
      [] text = TxtFencedObject ->
            JDict(("briefing_markdown" :> JStr("fenced"))
                  @@ ("files_to_inspect" :> JList(<<JStr("b.py")>>)))
      [] text = TxtEmbeddedObject ->
            JDict(("briefing_markdown" :> JStr("embedded"))
                  @@ ("files_to_inspect" :> JList(<<JStr("c.py")>>)))
      [] text = TxtNullFiles ->
            JDict(("briefing_markdown" :> JStr("b"))
                  @@ ("files_to_inspect" :> JNull))
      [] text = TxtIntFiles ->
            JDict(("briefing_markdown" :> JStr("b"))
                  @@ ("files_to_inspect" :> JList(<<JInt("1")>>)))
      [] OTHER -> JSONDecodeError

\* str.strip() leaves nothing
IsBlank(s) == s \in {"", " ", "  "}

\* dict.get(key) with the default None
DictGet(d, key) == IF key \in DOMAIN d THEN d[key] ELSE JNull

\* -------------------------------------------------- agents_workflow helpers
NoOutput == "AttributeError"

\* get_final_text: the first attribute of the result holding a non-blank
\* string; AttributeError when there is none.  A result is a record whose
\* attrs field maps the attribute names it has to their string values.
FinalTextAttrs == <<"final_output", "output", "output_text", "final_output_text", "text">>

RECURSIVE first_text(_, _)
first_text(attrs, i) ==
    IF i > Len(FinalTextAttrs) THEN NoOutput
    ELSE IF FinalTextAttrs[i] \in DOMAIN attrs /\ ~IsBlank(attrs[FinalTextAttrs[i]])
         THEN attrs[FinalTextAttrs[i]]
         ELSE first_text(attrs, i + 1)

\* a message: whether it is a dict, and its content, a JSON value
Message(is_dict, content) == [dict |-> is_dict, content |-> content]

\* a chunk of a list content
Chunk(type, text) == [type |-> type, text |-> text]

\* "\n".join(texts) on the chunk texts of the model
JoinLines(texts) ==
    CASE texts = <<>> -> ""
      [] Len(texts) = 1 -> texts[1]
      [] texts = <<"one", "two">> -> "one\ntwo"
      [] OTHER -> "?"

RECURSIVE chunk_texts(_)
\* the non-empty texts of the output_text and text chunks, in turn
chunk_texts(chunks) ==
    IF chunks = <<>> THEN <<>>
    ELSE (IF Head(chunks).type \in {"output_text", "text"} /\ Head(chunks).text # ""
          THEN <<Head(chunks).text>> ELSE <<>>) \o chunk_texts(Tail(chunks))

\* the non-blank text the loop body finds in one message, "" when none
message_text(message) ==
    IF message.content.t = "str"
    THEN (IF IsBlank(message.content.v) THEN "" ELSE message.content.v)
    ELSE IF message.dict /\ message.content.t = "list"
    THEN (LET joined == JoinLines(chunk_texts(message.content.v))
          IN  IF IsBlank(joined) THEN "" ELSE joined)
    ELSE ""

RECURSIVE latest_message_text(_, _)
\* for message in reversed(msgs): the first text found, "" when none
latest_message_text(msgs, i) ==
    IF i = 0 THEN ""
    ELSE IF message_text(msgs[i]) # "" THEN message_text(msgs[i])
    ELSE latest_message_text(msgs, i - 1)

\* get_final_text reading the attributes only
get_final_text_attrs_only(run_result) == first_text(run_result.attrs, 1)

\* get_final_text; messages is the list of the messages attribute, empty
\* also when the result has no such attribute or holds None there
get_final_text(run_result) ==
    IF first_text(run_result.attrs, 1) # NoOutput THEN first_text(run_result.attrs, 1)
    ELSE IF latest_message_text(run_result.messages, Len(run_result.messages)) # ""
    THEN latest_message_text(run_result.messages, Len(run_result.messages))
    ELSE NoOutput

\* json_or_fallback: the parsed object when the text is a JSON object, else
\* the fallback dictionary around the raw text.
json_or_fallback(text, fallback_key) ==
    LET obj == JsonLoads(text)
    IN  IF obj.t = "dict" THEN obj.v
        ELSE (fallback_key :> JStr(text)) @@ ("files_to_inspect" :> JList(<<>>))

is_string_list(value) ==
    /\ value.t = "list"
    /\ \A i \in DOMAIN value.v : value.v[i].t = "str"

\* the overview schema test without the test of files_to_inspect
validate_overview_output_briefing_only(payload) ==
    DictGet(payload, "briefing_markdown").t = "str"

validate_overview_output(payload) ==
    /\ DictGet(payload, "briefing_markdown").t = "str"
    /\ is_string_list(DictGet(payload, "files_to_inspect"))

\* the deep-dive schema test with files_to_inspect required
validate_deep_dive_output_files_required(payload) ==
    /\ DictGet(payload, "briefing_markdown").t = "str"
    /\ is_string_list(DictGet(payload, "files_to_inspect"))

validate_deep_dive_output(payload) ==
    IF DictGet(payload, "briefing_markdown").t # "str" THEN FALSE
    ELSE IF "files_to_inspect" \notin DOMAIN payload THEN TRUE
    ELSE is_string_list(DictGet(payload, "files_to_inspect"))

validate_reading_plan_output(payload) ==
    DictGet(payload, "reading_plan_markdown").t = "str"

\* {"briefing_markdown": text, "files_to_inspect": []} and its reading-plan twin
text_fallback(key, text) ==
    (key :> JStr(text)) @@ ("files_to_inspect" :> JList(<<>>))

\* bool(value) of a JSON value
Truthy(value) ==
    CASE value.t = "list" -> Len(value.v) > 0
      [] value.t = "str" -> value.v # ""
      [] value.t = "int" -> value.v # "0"
      [] value.t = "dict" -> DOMAIN value.v # {}
      [] OTHER -> FALSE

\* data.get("files_to_inspect") or [], without the default of the lookup
pending_files_without_default(data) ==
    LET value == DictGet(data, "files_to_inspect")
    IN  IF value.t = "list" /\ Len(value.v) = 0 THEN JList(<<>>) ELSE value

\* data.get("files_to_inspect", []) or []
pending_files(data) ==
    LET value == IF "files_to_inspect" \in DOMAIN data
                 THEN data["files_to_inspect"] ELSE JList(<<>>)
    IN  IF Truthy(value) THEN value ELSE JList(<<>>)

\* ------------------------------------------------------------------ budget
\* getattr with a default of 1
GetAttr1(entry, name) == IF name \in DOMAIN entry THEN entry[name] ELSE 1

\* getattr(entry, name, 0)
GetAttr0(entry, name) == IF name \in DOMAIN entry THEN entry[name] ELSE 0

RECURSIVE SumAttr(_, _)
SumAttr(entries, name) ==
    IF entries = <<>> THEN 0
    ELSE GetAttr0(Head(entries), name) + SumAttr(Tail(entries), name)

\* usage_totals counting the cached input tokens into total_tokens
usage_totals_with_cached(result) ==
    LET entries == result.entries
        in_tokens == SumAttr(entries, "input_tokens")
        out_tokens == SumAttr(entries, "output_tokens")
        cached_in == SumAttr(entries, "cached_input_tokens")
    IN  [input_tokens |-> in_tokens,
         output_tokens |-> out_tokens,
         cached_input_tokens |-> cached_in,
         total_tokens |-> in_tokens + out_tokens + cached_in,
         requests |-> Len(entries)]

usage_totals(result) ==
    LET entries == result.entries
        in_tokens == SumAttr(entries, "input_tokens")
        out_tokens == SumAttr(entries, "output_tokens")
        cached_in == SumAttr(entries, "cached_input_tokens")
    IN  [input_tokens |-> in_tokens,
         output_tokens |-> out_tokens,
         cached_input_tokens |-> cached_in,
         total_tokens |-> in_tokens + out_tokens,
         requests |-> Len(entries)]

\* Prices are units of 1e-7 USD per token (USD per 1M tokens, times 10).
estimate_cost_usd(result, pricing) ==
    LET totals == usage_totals(result)
    IN  totals.input_tokens * pricing.in_per_1m
        + totals.output_tokens * pricing.out_per_1m
        + totals.cached_input_tokens * pricing.cached_in_per_1m

\* budget_exceeded comparing with > : a total equal to its ceiling passes
budget_exceeded_strict(max_tokens, accumulated_tokens, max_cost, accumulated_cost) ==
    IF max_tokens > 0 /\ accumulated_tokens > max_tokens THEN TRUE
    ELSE max_cost > 0 /\ accumulated_cost > max_cost

\* budget_exceeded taking a ceiling of 0 for a ceiling
budget_exceeded_zero_enabled(max_tokens, accumulated_tokens, max_cost, accumulated_cost) ==
    IF max_tokens >= 0 /\ accumulated_tokens >= max_tokens THEN TRUE
    ELSE max_cost >= 0 /\ accumulated_cost >= max_cost

budget_exceeded(max_tokens, accumulated_tokens, max_cost, accumulated_cost) ==
    IF max_tokens > 0 /\ accumulated_tokens >= max_tokens THEN TRUE
    ELSE max_cost > 0 /\ accumulated_cost >= max_cost

\* the loop condition without the test of files_to_inspect
deep_dive_continues_any_files(it, max_iters, files_to_inspect, exceeded) ==
    it < max_iters /\ ~exceeded

\* the loop condition with it <= max_iters
deep_dive_continues_off_by_one(it, max_iters, files_to_inspect, exceeded) ==
    it <= max_iters /\ Truthy(files_to_inspect) /\ ~exceeded

\* the while condition of the deep-dive loop
deep_dive_continues(it, max_iters, files_to_inspect, exceeded) ==
    it < max_iters /\ Truthy(files_to_inspect) /\ ~exceeded

\* stopped_reason looking at the token ceiling only
stopped_reason_of_tokens_only(max_tokens, accumulated_tokens, max_cost, accumulated_cost) ==
    IF max_tokens > 0 /\ accumulated_tokens >= max_tokens
    THEN "budget_exceeded"
    ELSE "completed"

stopped_reason_of(max_tokens, accumulated_tokens, max_cost, accumulated_cost) ==
    IF (max_tokens > 0 /\ accumulated_tokens >= max_tokens)
       \/ (max_cost > 0 /\ accumulated_cost >= max_cost)
    THEN "budget_exceeded"
    ELSE "completed"

\* units of 1e-7 USD in one unit of the sixth decimal of a USD amount
CostUnitsPerMicroUsd == 10

\* round(accumulated_cost, 6), in micro-dollars.  An amount half-way between
\* two micro-dollars goes where its binary representation falls, so both
\* neighbours are possible results.
Round6(cost) ==
    LET q == cost \div CostUnitsPerMicroUsd
        r == cost % CostUnitsPerMicroUsd
    IN  IF 2 * r < CostUnitsPerMicroUsd THEN {q}
        ELSE IF 2 * r > CostUnitsPerMicroUsd THEN {q + 1}
        ELSE {q, q + 1}

\* ----------------------------------------------------------- context build
UrlGood == "https://github.com/openai/openai-python"
UrlSsh == "git@github.com:openai/openai-python.git"

\* parse_github_repo_url on the two URLs of the model
parse_github_repo_url(repo_url) ==
    IF repo_url = UrlGood THEN "ok" ELSE "ValueError"

\* What safe_get_json gives for one request: a value, or RuntimeError.
MetaResponses == {"main", "no_default_branch", "RuntimeError"}
ShaResponses == {"sha", "no_sha", "RuntimeError"}
TreeResponses == {"tree", "RuntimeError"}

\* fetch_repo_tree giving an empty tree when the tree listing fails
fetch_repo_tree_swallowing(branch_resp, commit_resp, tree_resp) ==
    LET tree_sha == IF branch_resp = "RuntimeError" THEN commit_resp ELSE branch_resp
    IN  IF tree_sha # "sha" THEN "RuntimeError" ELSE "ok"

\* fetch_repo_tree: "ok" when the tree listing is returned, else the exception.
\* The commit lookup is made only when the branch lookup raised.
fetch_repo_tree(branch_resp, commit_resp, tree_resp) ==
    LET tree_sha == IF branch_resp = "RuntimeError" THEN commit_resp ELSE branch_resp
    IN  IF tree_sha # "sha" THEN "RuntimeError"
        ELSE IF tree_resp = "RuntimeError" THEN "RuntimeError"
        ELSE "ok"

None == "None"

\* fetch_repo_context_impl: the exception it raises, or the context.  Only the
\* fields run_briefing_loop reads are kept.
fetch_repo_context_impl(repo_url, ref, meta_resp, branch_resp, commit_resp, tree_resp) ==
    IF parse_github_repo_url(repo_url) # "ok"
    THEN [raised |-> "ValueError", context |-> None]
    ELSE IF ref = "" /\ meta_resp = "RuntimeError"
    THEN [raised |-> "RuntimeError", context |-> None]
    ELSE IF fetch_repo_tree(branch_resp, commit_resp, tree_resp) # "ok"
    THEN [raised |-> "RuntimeError", context |-> None]
    ELSE [raised |-> "none",
          context |->
            [ref |-> IF ref # "" THEN ref ELSE "main",
             default_branch |->
                IF ref = "" /\ meta_resp = "main" THEN "main" ELSE None]]

\* the context build called without the ref
context_ref_arg_dropped(ref) == ""

\* the ref keyword run_briefing_loop hands to fetch_repo_context_impl
context_ref_arg(ref) == ref

\* ---------------------------------------------------------- safe_get_json
\* Durations are in milliseconds.  A response is a record of what the code
\* reads from it: the status code, three headers (None when absent), whether
\* the body parses as JSON, and the body text as a sequence of characters.
\* A GET that raises requests.RequestException has conn # "ok".

MAX_RETRIES == 3
BACKOFF_BASE_MS == 500
MAX_RETRY_AFTER_MS == 10000
JITTER_MAX_MS == 50
SNIPPET_CHARS == 200

NoHeaders == [remaining |-> None, reset |-> None, retry_after |-> None]

Response(status, headers, json_ok, text) ==
    [conn |-> "ok", status |-> status, headers |-> headers,
     json_ok |-> json_ok, text |-> text]

\* session.get raised a connection-level requests.RequestException
ConnectionFailure ==
    [conn |-> "RequestException", status |-> 0, headers |-> NoHeaders,
     json_ok |-> FALSE, text |-> <<>>]

NoResponse ==
    [conn |-> "none", status |-> 0, headers |-> NoHeaders,
     json_ok |-> FALSE, text |-> <<>>]

NoError == [exc |-> "None", status |-> 0]
HTTPError(status) == [exc |-> "HTTPError", status |-> status]
RequestException == [exc |-> "RequestException", status |-> 0]

\* float(value) in milliseconds, for the header values of the sample
ParseFloat(value) ==
    CASE value = "7"   -> [ok |-> TRUE, ms |-> 7000]
      [] value = "7.5" -> [ok |-> TRUE, ms |-> 7500]
      [] value = "30"  -> [ok |-> TRUE, ms |-> 30000]
      [] value = "0"   -> [ok |-> TRUE, ms |-> 0]
      [] value = "-5"  -> [ok |-> TRUE, ms |-> 0 - 5000]
      [] OTHER         -> [ok |-> FALSE, ms |-> 0]

\* int(value) succeeds and datetime.fromtimestamp accepts the result
ParsesAsTimestamp(value) ==
    value \in {"1700000000", "0"}

Min(a, b) == IF a <= b THEN a ELSE b
Max(a, b) == IF a >= b THEN a ELSE b

RECURSIVE Pow2(_)
Pow2(n) == IF n = 0 THEN 1 ELSE 2 * Pow2(n - 1)

\* the value None of _retry_after_seconds
NoRetryAfter == 0 - 1

should_retry_any_error(status_code) ==
    status_code >= 400

should_retry_status(status_code) ==
    status_code = 429 \/ (500 <= status_code /\ status_code <= 599)

retry_after_seconds_uncapped(header_value) ==
    IF header_value = None THEN NoRetryAfter
    ELSE IF ParseFloat(header_value).ok
         THEN Max(0, ParseFloat(header_value).ms)
         ELSE NoRetryAfter

retry_after_seconds(header_value) ==
    IF header_value = None THEN NoRetryAfter
    ELSE IF ParseFloat(header_value).ok
         THEN Max(0, Min(ParseFloat(header_value).ms, MAX_RETRY_AFTER_MS))
         ELSE NoRetryAfter

\* BACKOFF_BASE_SECONDS * (2**attempt) + random.uniform(0.0, 0.05)
backoff_sleep(attempt_no, jitter) ==
    BACKOFF_BASE_MS * Pow2(attempt_no) + jitter

\* the result or the exception of a call, by the parts of its message
NoOut ==
    [kind |-> "none", status |-> 0, cause |-> NoError,
     reset_form |-> "none", reset_unix |-> None, token_hint |-> FALSE,
     snippet |-> <<>>]

is_rate_limited(response) ==
    response.status = 403 /\ response.headers.remaining = "0"

rate_limit_error_without_reset(response) ==
    [NoOut EXCEPT !.kind = "rate_limit", !.token_hint = TRUE]

\* _rate_limit_error
rate_limit_error(response) ==
    LET reset_unix == response.headers.reset
        truthy == reset_unix # None /\ reset_unix # ""
    IN  [NoOut EXCEPT
            !.kind = "rate_limit",
            !.reset_form = IF ~truthy THEN "none"
                           ELSE IF ParsesAsTimestamp(reset_unix) THEN "utc"
                           ELSE "unix",
            !.reset_unix = IF truthy THEN reset_unix ELSE None,
            !.token_hint = TRUE]

request_failed(error) ==
    [NoOut EXCEPT !.kind = "request_failed", !.cause = error]

RECURSIVE EscapeNewlines(_)
\* str.replace("\n", "\\n"), computed by halves
EscapeNewlines(text) ==
    IF Len(text) = 0 THEN <<>>
    ELSE IF Len(text) = 1
    THEN (IF text[1] = "\n" THEN <<"\\", "n">> ELSE text)
    ELSE LET half == Len(text) \div 2
         IN  EscapeNewlines(SubSeq(text, 1, half))
             \o EscapeNewlines(SubSeq(text, half + 1, Len(text)))

body_snippet_unsliced(text) ==
    EscapeNewlines(text)

\* response.text[:200].replace("\n", "\\n")
body_snippet(text) ==
    EscapeNewlines(SubSeq(text, 1, Min(Len(text), SNIPPET_CHARS)))

non_json_error(response) ==
    [NoOut EXCEPT !.kind = "non_json", !.status = response.status,
                  !.snippet = body_snippet(response.text)]

\* One pass of the loop body: what it does next, the sleep it makes
\* (NoRetryAfter when none), the new last_error, and the result or exception.
LoopStep(next, sleep, error, out) ==
    [next |-> next, sleep |-> sleep, last_error |-> error, out |-> out]

\* the except requests.HTTPError branch
on_http_error(response, attempt_no, jitter, prev_error) ==
    LET status_code == response.status
        error == HTTPError(status_code)
    IN  IF status_code = 403 /\ response.headers.remaining = "0"
        THEN LoopStep("raise", NoRetryAfter, prev_error, rate_limit_error(response))
        ELSE IF should_retry_status(status_code) /\ attempt_no < MAX_RETRIES
        THEN LET retry_after ==
                     IF status_code = 429
                     THEN retry_after_seconds(response.headers.retry_after)
                     ELSE NoRetryAfter
             IN  LoopStep("continue",
                          IF retry_after # NoRetryAfter THEN retry_after
                          ELSE backoff_sleep(attempt_no, jitter),
                          error, NoOut)
        ELSE LoopStep("raise", NoRetryAfter, prev_error, request_failed(error))

\* the branch sleeping before it looks at the attempt number
on_request_exception_sleeping_last(attempt_no, jitter, prev_error) ==
    IF attempt_no < MAX_RETRIES
    THEN LoopStep("continue", backoff_sleep(attempt_no, jitter),
                  RequestException, NoOut)
    ELSE LoopStep("raise", backoff_sleep(attempt_no, jitter), prev_error,
                  request_failed(RequestException))

\* the branch raising at the first connection failure
on_request_exception_not_retried(attempt_no, jitter, prev_error) ==
    LoopStep("raise", NoRetryAfter, prev_error, request_failed(RequestException))

\* the except requests.RequestException branch
on_request_exception(attempt_no, jitter, prev_error) ==
    IF attempt_no < MAX_RETRIES
    THEN LoopStep("continue", backoff_sleep(attempt_no, jitter),
                  RequestException, NoOut)
    ELSE LoopStep("raise", NoRetryAfter, prev_error,
                  request_failed(RequestException))

\* the body of "for attempt in range(MAX_RETRIES + 1)"
loop_body(response, attempt_no, jitter, prev_error) ==
    IF response.conn # "ok"
    THEN on_request_exception(attempt_no, jitter, prev_error)
    ELSE IF is_rate_limited(response)
    THEN LoopStep("raise", NoRetryAfter, prev_error, rate_limit_error(response))
    ELSE IF should_retry_status(response.status) /\ attempt_no < MAX_RETRIES
    THEN LET retry_after == retry_after_seconds(response.headers.retry_after)
         IN  LoopStep("continue",
                      IF response.status = 429 /\ retry_after # NoRetryAfter
                      THEN retry_after
                      ELSE backoff_sleep(attempt_no, jitter),
                      prev_error, NoOut)
    ELSE IF response.status >= 400
    THEN on_http_error(response, attempt_no, jitter, prev_error)
    ELSE IF response.json_ok
    THEN LoopStep("return", NoRetryAfter, prev_error,
                  [NoOut EXCEPT !.kind = "value", !.status = response.status])
    ELSE LoopStep("raise", NoRetryAfter, prev_error, non_json_error(response))

\* ----------------------------------------------------------------- truncate
\* Strings are sequences of one-character strings.

\* "\n...[truncated]..."
TruncationSuffix ==
    <<"\n", ".", ".", ".", "[", "t", "r", "u", "n", "c", "a", "t", "e", "d",
      "]", ".", ".", ".">>

\* text[:n] for n >= 0
Prefix(text, n) == SubSeq(text, 1, Min(n, Len(text)))

\* truncate appending the marker to the first max_chars characters
truncate_over_budget(text, max_chars) ==
    IF max_chars <= 0 THEN <<>>
    ELSE IF Len(text) <= max_chars THEN text
    ELSE IF max_chars <= Len(TruncationSuffix)
    THEN Prefix(TruncationSuffix, max_chars)
    ELSE Prefix(text, max_chars) \o TruncationSuffix

truncate(text, max_chars) ==
    IF max_chars <= 0 THEN <<>>
    ELSE IF Len(text) <= max_chars THEN text
    ELSE IF max_chars <= Len(TruncationSuffix)
    THEN Prefix(TruncationSuffix, max_chars)
    ELSE Prefix(text, max_chars - Len(TruncationSuffix)) \o TruncationSuffix

\* ------------------------------------------------------------- tree_summary
\* the characters of the sample paths, in code point order
CodePointOrder ==
    <<"-", ".", "/", "0", "1", "2", "3", "4", "5", "6", "7", "8", "9",
      "A", "B", "C", "D", "E", "F", "G", "H", "I", "J", "K", "L", "M", "N", "O", "P", "Q",
      "R", "S", "T", "U", "V", "W", "X", "Y", "Z", "_", "a", "b", "c", "d", "e",
      "f", "g", "h", "i", "j", "k", "l", "m", "n", "o", "p", "q", "r", "s", "t", "u", "v", "w", "x", "y", "z">>

\* ord(c), up to an order-preserving renumbering
Ord(c) == CHOOSE i \in 1..Len(CodePointOrder) : CodePointOrder[i] = c

\* a < b for strings
StrLess(a, b) ==
    \E i \in 1..(Min(Len(a), Len(b)) + 1) :
        /\ \A j \in 1..(i - 1) : a[j] = b[j]
        /\ \/ i > Len(a) /\ i <= Len(b)
           \/ i <= Len(a) /\ i <= Len(b) /\ Ord(a[i]) < Ord(b[i])

\* path.count("/")
CountSlashes(path) == Cardinality({i \in 1..Len(path) : path[i] = "/"})

\* path.endswith(ending)
EndsWith(path, ending) ==
    /\ Len(path) >= Len(ending)
    /\ SubSeq(path, Len(path) - Len(ending) + 1, Len(path)) = ending

\* the sort key being the path alone
path_only_less(a, b) ==
    StrLess(a, b)

\* (a.count("/"), a) < (b.count("/"), b)
sort_key_less(a, b) ==
    \/ CountSlashes(a) < CountSlashes(b)
    \/ CountSlashes(a) = CountSlashes(b) /\ StrLess(a, b)

RECURSIVE InsertByKey(_, _)
InsertByKey(path, ordered) ==
    IF ordered = <<>> THEN <<path>>
    ELSE IF sort_key_less(path, Head(ordered)) THEN <<path>> \o ordered
    ELSE <<Head(ordered)>> \o InsertByKey(path, Tail(ordered))

RECURSIVE SortedByKey(_)
\* sorted(paths, key=...): stable, so a path goes after the equal ones before it
SortedByKey(paths) ==
    IF paths = <<>> THEN <<>>
    ELSE InsertByKey(paths[Len(paths)],
                     SortedByKey(SubSeq(paths, 1, Len(paths) - 1)))

RECURSIVE Join(_, _)
\* separator.join(parts)
Join(separator, parts) ==
    IF parts = <<>> THEN <<>>
    ELSE IF Len(parts) = 1 THEN parts[1]
    ELSE parts[1] \o separator \o Join(separator, Tail(parts))

\* the one-character strings U+1F4C1 (file folder) and U+1F4C4 (page facing up)
DirMarker == "U+1F4C1"
FileMarker == "U+1F4C4"

tree_summary(paths, max_entries) ==
    LET ordered_paths == Prefix(SortedByKey(paths), max_entries)
    IN  Join(<<"\n">>,
             [i \in 1..Len(ordered_paths) |->
                 <<IF EndsWith(ordered_paths[i], <<"/">>)
                   THEN DirMarker ELSE FileMarker, " ">>
                 \o ordered_paths[i]])

\* ----------------------------------------------------------- pick_key_files
UpperChars ==
    <<"A", "B", "C", "D", "E", "F", "G", "H", "I", "J", "K", "L", "M",
      "N", "O", "P", "Q", "R", "S", "T", "U", "V", "W", "X", "Y", "Z">>

LowerChars ==
    <<"a", "b", "c", "d", "e", "f", "g", "h", "i", "j", "k", "l", "m",
      "n", "o", "p", "q", "r", "s", "t", "u", "v", "w", "x", "y", "z">>

\* c.lower()
LowerChar(c) ==
    IF \E i \in 1..Len(UpperChars) : UpperChars[i] = c
    THEN LowerChars[CHOOSE i \in 1..Len(UpperChars) : UpperChars[i] = c]
    ELSE c

\* path.lower()
Lower(path) == [i \in 1..Len(path) |-> LowerChar(path[i])]

\* part in path
Contains(path, part) ==
    \E i \in 1..(Len(path) - Len(part) + 1) :
        SubSeq(path, i, i + Len(part) - 1) = part

candidates ==
    <<<<"R", "E", "A", "D", "M", "E", ".", "m", "d">>,
      <<"R", "E", "A", "D", "M", "E", ".", "r", "s", "t">>,
      <<"R", "E", "A", "D", "M", "E", ".", "t", "x", "t">>,
      <<"C", "O", "N", "T", "R", "I", "B", "U", "T", "I", "N", "G", ".", "m", "d">>,
      <<"L", "I", "C", "E", "N", "S", "E">>,
      <<"S", "E", "C", "U", "R", "I", "T", "Y", ".", "m", "d">>,
      <<"C", "H", "A", "N", "G", "E", "L", "O", "G", ".", "m", "d">>,
      <<"C", "O", "D", "E", "O", "W", "N", "E", "R", "S">>,
      <<".", "e", "n", "v", ".", "e", "x", "a", "m", "p", "l", "e">>,
      <<".", "e", "n", "v", ".", "s", "a", "m", "p", "l", "e">>,
      <<"D", "o", "c", "k", "e", "r", "f", "i", "l", "e">>,
      <<"d", "o", "c", "k", "e", "r", "-", "c", "o", "m", "p", "o", "s", "e", ".", "y", "m", "l">>,
      <<"c", "o", "m", "p", "o", "s", "e", ".", "y", "m", "l">>,
      <<"M", "a", "k", "e", "f", "i", "l", "e">>,
      <<"p", "y", "p", "r", "o", "j", "e", "c", "t", ".", "t", "o", "m", "l">>,
      <<"r", "e", "q", "u", "i", "r", "e", "m", "e", "n", "t", "s", ".", "t", "x", "t">>,
      <<"P", "i", "p", "f", "i", "l", "e">>,
      <<"p", "o", "e", "t", "r", "y", ".", "l", "o", "c", "k">>,
      <<"s", "e", "t", "u", "p", ".", "p", "y">>,
      <<"p", "a", "c", "k", "a", "g", "e", ".", "j", "s", "o", "n">>,
      <<"p", "n", "p", "m", "-", "l", "o", "c", "k", ".", "y", "a", "m", "l">>,
      <<"y", "a", "r", "n", ".", "l", "o", "c", "k">>,
      <<"t", "s", "c", "o", "n", "f", "i", "g", ".", "j", "s", "o", "n">>,
      <<"C", "a", "r", "g", "o", ".", "t", "o", "m", "l">>,
      <<"g", "o", ".", "m", "o", "d">>,
      <<"p", "o", "m", ".", "x", "m", "l">>,
      <<"b", "u", "i", "l", "d", ".", "g", "r", "a", "d", "l", "e">>>>

EntrypointSuffixes ==
    {<<"/", "m", "a", "i", "n", ".", "p", "y">>,
     <<"/", "a", "p", "p", ".", "p", "y">>,
     <<"/", "s", "e", "r", "v", "e", "r", ".", "p", "y">>,
     <<"/", "c", "l", "i", ".", "p", "y">>,
     <<"/", "i", "n", "d", "e", "x", ".", "j", "s">>,
     <<"/", "i", "n", "d", "e", "x", ".", "t", "s">>,
     <<"/", "m", "a", "i", "n", ".", "g", "o">>,
     <<"/", "m", "a", "i", "n", ".", "r", "s">>,
     <<"/", "_", "_", "i", "n", "i", "t", "_", "_", ".", "p", "y">>}

is_entrypoint(lower) ==
    \E suffix \in EntrypointSuffixes : EndsWith(lower, suffix)

is_docs_file(lower) ==
    /\ Contains(lower, <<"/", "d", "o", "c", "s", "/">>)
    /\ \/ EndsWith(lower, <<".", "m", "d">>)
       \/ EndsWith(lower, <<".", "r", "s", "t">>)

\* tree_index.get(path)
TypeAt(tree_index, path) ==
    IF path \in DOMAIN tree_index THEN tree_index[path] ELSE None

\* the loop over the candidates
conventional_found(tree_index) ==
    LET is_present_blob(candidate) ==
            candidate \in DOMAIN tree_index /\ tree_index[candidate] = "blob"
    IN  SelectSeq(candidates, is_present_blob)

RECURSIVE matched_in_set_order(_, _)
\* the loop "for path in present", present being enumerated as iteration
matched_in_set_order(tree_index, iteration) ==
    IF iteration = <<>> THEN <<>>
    ELSE LET path == Head(iteration)
             lower == Lower(path)
             rest == matched_in_set_order(tree_index, Tail(iteration))
         IN  IF TypeAt(tree_index, path) # "blob" THEN rest
             ELSE (IF is_entrypoint(lower) THEN <<path>> ELSE <<>>)
                  \o (IF is_docs_file(lower) THEN <<path>> ELSE <<>>)
                  \o rest

RECURSIVE Unique(_, _)
\* the seen/unique loop
Unique(found, seen) ==
    IF found = <<>> THEN <<>>
    ELSE IF Head(found) \in seen THEN Unique(Tail(found), seen)
    ELSE <<Head(found)>> \o Unique(Tail(found), seen \cup {Head(found)})

\* iteration is the order in which the set of the index's paths is enumerated
pick_key_files(tree_index, max_files, iteration) ==
    LET found == conventional_found(tree_index)
                 \o matched_in_set_order(tree_index, iteration)
    IN  Prefix(Unique(found, {}), max_files)

\* ------------------------------------------------------------ file fetching
\* A request is named by its endpoint and, for a file, its path.  What
\* safe_get_json gives for a contents request: a file object, a directory
\* listing, or RuntimeError.
FileReplies == {"file", "dir", "RuntimeError"}

Request(endpoint, path) == [endpoint |-> endpoint, path |-> path]

\* the content field of the file objects of the model
SampleContentB64 == "aGVsbG8="

\* base64.b64decode(content).decode("utf-8") on the contents of the model
B64Decode(content_b64) ==
    IF content_b64 = "aGVsbG8=" THEN <<"h", "e", "l", "l", "o">> ELSE <<>>

MAX_FILE_CHARS == 12000
MAX_README_CHARS == 12000
MAX_TREE_ENTRIES == 350
FETCH_FILES_MAX_FILE_CHARS == 16000

\* fetch_file_content returning the decoded content whole
fetch_file_content_untruncated(reply, max_chars) ==
    IF reply = "file" THEN B64Decode(SampleContentB64) ELSE <<>>

\* fetch_file_content on a reply that is not an exception
fetch_file_content(reply, max_chars) ==
    IF reply = "file"
    THEN truncate(B64Decode(SampleContentB64), max_chars)
    ELSE <<>>

\* the metadata request made whatever ref is known
needs_repo_meta_always(selected_ref) ==
    TRUE

\* "if not resolved_ref" and "if not selected_ref"
needs_repo_meta(selected_ref) ==
    selected_ref = "" \/ selected_ref = None

\* repo_meta.get("default_branch", "main")
default_branch_or_main(meta_resp) ==
    IF meta_resp = "no_default_branch" THEN "main" ELSE meta_resp

\* repo_meta.get("default_branch")
default_branch_of(meta_resp) ==
    IF meta_resp = "no_default_branch" THEN None ELSE meta_resp

Whitespace == {" ", "\t", "\n"}

RECURSIVE LStripChars(_, _)
\* text.lstrip(chars)
LStripChars(text, chars) ==
    IF text # <<>> /\ Head(text) \in chars
    THEN LStripChars(Tail(text), chars) ELSE text

RECURSIVE RStripChars(_, _)
\* text.rstrip(chars)
RStripChars(text, chars) ==
    IF text # <<>> /\ text[Len(text)] \in chars
    THEN RStripChars(SubSeq(text, 1, Len(text) - 1), chars) ELSE text

\* path.strip().lstrip("/")
cleaned_path(path) ==
    LStripChars(RStripChars(LStripChars(path, Whitespace), Whitespace), {"/"})

\* f"[Could not fetch {cleaned_path}: {type(error).__name__}]"
could_not_fetch(cleaned) ==
    <<"[", "C", "o", "u", "l", "d", " ", "n", "o", "t", " ", "f", "e", "t", "c", "h", " ">> \o cleaned \o <<":", " ", "R", "u", "n", "t", "i", "m", "e", "E", "r", "r", "o", "r", "]">>

\* the entry of a requested file left empty when its fetch fails
requested_file_entry_empty(cleaned, reply, max_chars) ==
    IF reply = "RuntimeError" THEN <<>>
    ELSE fetch_file_content(reply, max_chars)

\* the try/except of fetch_files_impl
requested_file_entry(cleaned, reply, max_chars) ==
    IF reply = "RuntimeError" THEN could_not_fetch(cleaned)
    ELSE fetch_file_content(reply, max_chars)

\* the try/except of the key-file loop of fetch_repo_context_impl
key_file_entry(reply, max_chars) ==
    IF reply = "RuntimeError" THEN <<>>
    ELSE fetch_file_content(reply, max_chars)

\* dict item assignment
DictSet(dict, key, value) ==
    [k \in DOMAIN dict \cup {key} |-> IF k = key THEN value ELSE dict[k]]

EmptyDict == [k \in {} |-> <<>>]

RECURSIVE requested_files(_, _, _, _)
\* the loop over paths: the out dictionary and the requests, in turn;
\* replies[i] is what the request for paths[i] gives, if it is made
requested_files(paths, replies, max_chars, done) ==
    IF paths = <<>> THEN done
    ELSE LET cleaned == cleaned_path(Head(paths))
             after ==
                 IF cleaned = <<>> THEN done
                 ELSE [out |-> DictSet(done.out, cleaned,
                                       requested_file_entry(cleaned, Head(replies),
                                                            max_chars)),
                       requests |-> Append(done.requests,
                                           Request("contents", cleaned))]
         IN  requested_files(Tail(paths), Tail(replies), max_chars, after)

\* fetch_files_impl for a well-formed repo_url: the exception or the result,
\* and the requests made
fetch_files_impl(paths, default_branch, ref, meta_resp, replies, max_file_chars) ==
    LET selected_ref == IF ref # "" THEN ref ELSE default_branch
        asks == needs_repo_meta(selected_ref)
        meta_requests == IF asks THEN <<Request("repo", <<>>)>> ELSE <<>>
    IN  IF asks /\ meta_resp = "RuntimeError"
        THEN [raised |-> "RuntimeError", requests |-> meta_requests,
              default_branch |-> None, ref |-> None, files |-> EmptyDict]
        ELSE LET final_ref == IF asks THEN default_branch_or_main(meta_resp)
                              ELSE selected_ref
                 fetched == requested_files(paths, replies, max_file_chars,
                                [out |-> EmptyDict, requests |-> meta_requests])
             IN  [raised |-> "none", requests |-> fetched.requests,
                  default_branch |-> final_ref, ref |-> final_ref,
                  files |-> fetched.out]

\* the requests of a fetch_repo_tree that makes both lookups every time
fetch_repo_tree_requests_both_lookups(branch_resp, commit_resp) ==
    LET tree_sha == IF branch_resp = "RuntimeError" THEN commit_resp ELSE branch_resp
    IN  <<Request("branches", <<>>), Request("commits", <<>>)>>
        \o (IF tree_sha = "sha" THEN <<Request("git/trees", <<>>)>> ELSE <<>>)

\* the requests fetch_repo_tree makes, in turn
fetch_repo_tree_requests(branch_resp, commit_resp) ==
    LET tree_sha == IF branch_resp = "RuntimeError" THEN commit_resp ELSE branch_resp
    IN  <<Request("branches", <<>>)>>
        \o (IF branch_resp = "RuntimeError"
            THEN <<Request("commits", <<>>)>> ELSE <<>>)
        \o (IF tree_sha = "sha" THEN <<Request("git/trees", <<>>)>> ELSE <<>>)

\* the key-file loop: replies[path] is what the request for path gives
key_file_contents(key_files, replies, max_chars) ==
    [path \in {key_files[i] : i \in 1..Len(key_files)} |->
        key_file_entry(replies[path], max_chars)]

\* fetch_repo_context_impl for a well-formed repo_url, with the requests it
\* makes and the file fields of the context
\* path.startswith(prefix)
StartsWith(path, prefix) ==
    /\ Len(path) >= Len(prefix)
    /\ SubSeq(path, 1, Len(prefix)) = prefix

\* the directory prefixes left out of the tree summary
ExcludedPrefixes ==
    {<<"n", "o", "d", "e", "_", "m", "o", "d", "u", "l", "e", "s", "/">>, <<"d", "i", "s", "t", "/">>, <<"b", "u", "i", "l", "d", "/">>, <<".", "g", "i", "t", "/">>, <<".", "v", "e", "n", "v", "/">>, <<"v", "e", "n", "v", "/">>}

RECURSIVE paths_for_summary(_, _)
\* lines 322-331: the paths of the summary, order being the order of the
\* index; directories end with one slash
paths_for_summary(tree_index, order) ==
    IF order = <<>> THEN <<>>
    ELSE LET path == Head(order)
             rest == paths_for_summary(tree_index, Tail(order))
         IN  IF \E prefix \in ExcludedPrefixes : StartsWith(Lower(path), prefix)
             THEN rest
             ELSE IF tree_index[path] = "tree"
             THEN <<RStripChars(path, {"/"}) \o <<"/">>>> \o rest
             ELSE <<path>> \o rest

fetch_repo_context_impl_files(ref, meta_resp, branch_resp, commit_resp, tree_resp, tree_index, iteration, replies, readme_reply, max_key_files, max_file_chars, max_readme_chars, max_tree_entries) ==
    LET asks == needs_repo_meta(ref)
        meta_requests == IF asks THEN <<Request("repo", <<>>)>> ELSE <<>>
        resolved_ref == IF asks THEN default_branch_or_main(meta_resp) ELSE ref
        tree_requests == fetch_repo_tree_requests(branch_resp, commit_resp)
        failed(requests) ==
            [raised |-> "RuntimeError", requests |-> requests,
             ref |-> None, default_branch |-> None, key_files |-> <<>>,
             key_file_contents |-> EmptyDict, readme |-> <<>>, tree_summary |-> <<>>]
    IN  IF asks /\ meta_resp = "RuntimeError" THEN failed(meta_requests)
        ELSE IF fetch_repo_tree(branch_resp, commit_resp, tree_resp) # "ok"
        THEN failed(meta_requests \o tree_requests)
        ELSE LET key_files == pick_key_files(tree_index, max_key_files, iteration)
                 files_content == key_file_contents(key_files, replies,
                                                    max_file_chars)
                 readme_path == <<"R", "E", "A", "D", "M", "E", ".", "m", "d">>
                 readme_text == IF readme_path \in DOMAIN files_content
                                THEN files_content[readme_path] ELSE <<>>
             IN  [raised |-> "none",
                  requests |->
                      meta_requests \o tree_requests
                      \o [i \in 1..Len(key_files) |->
                             Request("contents", key_files[i])]
                      \o (IF readme_text = <<>>
                          THEN <<Request("readme", <<>>)>> ELSE <<>>),
                  ref |-> resolved_ref,
                  default_branch |->
                      IF asks THEN default_branch_of(meta_resp) ELSE None,
                  key_files |-> key_files,
                  key_file_contents |-> files_content,
                  tree_summary |->
                      tree_summary(paths_for_summary(tree_index, iteration),
                                   max_tree_entries),
                  readme |->
                      IF readme_text = <<>>
                      THEN (IF readme_reply = "file"
                            THEN truncate(B64Decode(SampleContentB64),
                                          max_readme_chars)
                            ELSE <<>>)
                      ELSE truncate(readme_text, max_readme_chars)]

\* ------------------------------------------------------------ Pricing.for_model
\* An optional price of the command line: given is FALSE for None.  Rates
\* here are in hundredths of a USD per 1M tokens.
NoPrice == [given |-> FALSE, value |-> 0]
Price(value) == [given |-> TRUE, value |-> value]

\* DEFAULT_PRICING_PER_1M
DEFAULT_PRICING_PER_1M ==
    [m \in {"gpt-4.1-mini", "gpt-4.1", "_default"} |->
        CASE m = "gpt-4.1-mini" -> ("in" :> 40) @@ ("out" :> 160) @@ ("cached_in" :> 10)
          [] m = "gpt-4.1" -> ("in" :> 200) @@ ("out" :> 800) @@ ("cached_in" :> 50)
          [] OTHER -> ("in" :> 100) @@ ("out" :> 400) @@ ("cached_in" :> 25)]

\* An environment: the value of each PRICE_* variable, None when it is unset.
EnvUnset == [price_in |-> None, price_out |-> None, price_cached_in |-> None]

\* float(value) of the sample values of the environment
EnvFloat(value) ==
    CASE value = "9.5" -> 950
      [] value = "10.5" -> 1050
      [] value = "1.5" -> 150
      [] value = "3" -> 300
      [] OTHER -> 0

\* a value of os.getenv is truthy: set and not the empty string
EnvTruthy(value) == value # None /\ value # ""

Pricing(in_per_1m, out_per_1m, cached_in_per_1m) ==
    [in_per_1m |-> in_per_1m, out_per_1m |-> out_per_1m,
     cached_in_per_1m |-> cached_in_per_1m]

\* the resolution with the environment tried before the explicit overrides
for_model_env_first(model, price_in, price_out, price_cached_in, env) ==
    IF EnvTruthy(env.price_in) /\ EnvTruthy(env.price_out)
    THEN Pricing(EnvFloat(env.price_in), EnvFloat(env.price_out),
                 IF EnvTruthy(env.price_cached_in) THEN EnvFloat(env.price_cached_in)
                 ELSE DEFAULT_PRICING_PER_1M["_default"]["cached_in"])
    ELSE IF price_in.given /\ price_out.given
    THEN Pricing(price_in.value, price_out.value,
                 IF price_cached_in.given THEN price_cached_in.value
                 ELSE DEFAULT_PRICING_PER_1M["_default"]["cached_in"])
    ELSE LET entry == IF model \in DOMAIN DEFAULT_PRICING_PER_1M
                      THEN DEFAULT_PRICING_PER_1M[model]
                      ELSE DEFAULT_PRICING_PER_1M["_default"]
         IN  Pricing(entry["in"], entry["out"], entry["cached_in"])

\* Pricing.for_model; env holds the module globals ENV_PRICE_IN,
\* ENV_PRICE_OUT and ENV_PRICE_CACHED_IN
for_model(model, price_in, price_out, price_cached_in, env) ==
    IF price_in.given /\ price_out.given
    THEN Pricing(price_in.value, price_out.value,
                 IF price_cached_in.given THEN price_cached_in.value
                 ELSE DEFAULT_PRICING_PER_1M["_default"]["cached_in"])
    ELSE IF EnvTruthy(env.price_in) /\ EnvTruthy(env.price_out)
    THEN Pricing(EnvFloat(env.price_in), EnvFloat(env.price_out),
                 IF EnvTruthy(env.price_cached_in) THEN EnvFloat(env.price_cached_in)
                 ELSE DEFAULT_PRICING_PER_1M["_default"]["cached_in"])
    ELSE LET entry == IF model \in DOMAIN DEFAULT_PRICING_PER_1M
                      THEN DEFAULT_PRICING_PER_1M[model]
                      ELSE DEFAULT_PRICING_PER_1M["_default"]
         IN  Pricing(entry["in"], entry["out"],
                     IF "cached_in" \in DOMAIN entry THEN entry["cached_in"] ELSE 0)

\* the module globals of lines 15-17: os.getenv at the import of the module
env_prices(import_env, call_env) == import_env

\* validate_price_overrides raises ValueError
validate_price_overrides(price_in, price_out) ==
    IF (~price_in.given) # (~price_out.given) THEN "ValueError" ELSE "none"

\* ---------------------------------------------------------------------- cli
\* str(value) of the sample token and request counts
IntStr(value) ==
    CASE value = 0 -> <<"0">>
      [] value = 1 -> <<"1">>
      [] value = 2 -> <<"2">>
      [] value = 123 -> <<"1", "2", "3">>
      [] OTHER -> <<"?">>

\* str(value) of the sample costs, floats given in units of 1e-7 USD
FloatStr(value) ==
    CASE value = 0 -> <<"0", ".", "0">>
      [] value = 1000000 -> <<"0", ".", "1">>
      [] OTHER -> <<"?">>

\* the characters of a stopped_reason
ReasonStr(reason) ==
    CASE reason = "completed" -> <<"c", "o", "m", "p", "l", "e", "t", "e", "d">>
      [] reason = "budget_exceeded" -> <<"b", "u", "d", "g", "e", "t", "_", "e", "x", "c", "e", "e", "d", "e", "d">>
      [] OTHER -> <<"?">>

SkippedNote ==
    <<"_", "R", "e", "a", "d", "i", "n", "g", " ", "p", "l", "a", "n", " ", "s", "k", "i", "p", "p", "e", "d", " ", "b", "e", "c", "a", "u", "s", "e", " ", "t", "h", "e", " ", "c", "o", "n", "f", "i", "g", "u", "r", "e", "d", " ", "b", "u", "d", "g", "e", "t", " ", "l", "i", "m", "i", "t", " ", "w", "a", "s", " ", "r", "e", "a", "c", "h", "e", "d", ".", "_">>

\* json.dumps(result, indent=2, ensure_ascii=False), kept as the value dumped
JsonDumps(result) == [t |-> "json", v |-> result]

\* the four footer lines after the rule
usage_footer(result) ==
    <<<<"-", "-", "-">>,
      <<"-", " ", "E", "s", "t", "i", "m", "a", "t", "e", "d", " ", "c", "o", "s", "t", ":", " ", "$">> \o FloatStr(result["usage"].estimated_cost_usd),
      <<"-", " ", "T", "o", "k", "e", "n", "s", ":", " ">> \o IntStr(result["usage"].total_tokens),
      <<"-", " ", "R", "e", "q", "u", "e", "s", "t", "s", ":", " ">> \o IntStr(result["usage"].requests),
      <<"-", " ", "S", "t", "o", "p", "p", "e", "d", " ", "r", "e", "a", "s", "o", "n", ":", " ">> \o ReasonStr(result["stopped_reason"])>>

\* the parts before the footer, the skipped note following every empty plan
plan_parts_note_on_empty(result) ==
    IF "reading_plan_markdown" \in DOMAIN result /\ result["reading_plan_markdown"] # <<>>
    THEN <<RStripChars(result["reading_plan_markdown"], Whitespace)>>
    ELSE <<SkippedNote>>

\* the parts between the briefing and the footer (lines 23-26)
plan_parts(result) ==
    IF "reading_plan_markdown" \in DOMAIN result /\ result["reading_plan_markdown"] # <<>>
    THEN <<RStripChars(result["reading_plan_markdown"], Whitespace)>>
    ELSE IF "stopped_reason" \in DOMAIN result /\ result["stopped_reason"] = "budget_exceeded"
    THEN <<SkippedNote>>
    ELSE <<>>

render_output(result, output_format) ==
    IF output_format = "json" THEN JsonDumps(result)
    ELSE Join(<<"\n", "\n">>,
              <<RStripChars(result["briefing_markdown"], Whitespace)>>
              \o plan_parts(result) \o usage_footer(result))

\* Path(output_path).parent and its own parents, nearest last, for the sample
\* paths; the working directory itself is left out, as it exists
ParentDirs(output_path) ==
    CASE output_path = "out/brief.md" -> <<"out">>
      [] output_path = "a/b/brief.md" -> <<"a", "a/b">>
      [] OTHER -> <<>>

\* write_output: what the call writes to standard output, the directories it
\* creates and the files it writes; dirs are the directories that exist
write_output(output_text, output_path, dirs) ==
    IF output_path = None \/ output_path = ""
    THEN [stdout |-> output_text \o <<"\n">>, mkdir |-> {}, files |-> {}]
    ELSE [stdout |-> <<>>,
          mkdir |-> {ParentDirs(output_path)[i] : i \in DOMAIN ParentDirs(output_path)} \ dirs,
          files |-> {[path |-> output_path, text |-> output_text \o <<"\n">>]}]

\* os.getenv("OPENAI_API_KEY", "").strip() is empty, whatever the value
\* holds besides being set
api_key_missing_when_unset(value) == value = None

\* os.getenv("OPENAI_API_KEY", "").strip() is empty
api_key_missing(value) == value = None \/ IsBlank(value)

\* one exit code for every failure of the run
run_exit_code_one(raised) == 1

\* the exit code of the two except clauses of lines 200-205
run_exit_code(raised) == IF raised = "KeyboardInterrupt" THEN 130 ELSE 1

\* what a call of main did: the code it exited with (0 for a normal return),
\* the lines written to standard error and what went to standard output, and
\* the pricing of every run_briefing_loop call
MainOutcome(exit_code, stdout, stderr, run_calls) ==
    [exit_code |-> exit_code, stdout |-> stdout, stderr |-> stderr, run_calls |-> run_calls]

\* cli.main on parsed arguments; api_key is the OPENAI_API_KEY of the
\* environment, run what run_briefing_loop does when called and write what
\* rendering and writing its result do
main(args, api_key, run, write) ==
    IF args.version THEN MainOutcome(0, <<"version">>, <<>>, <<>>)
    ELSE IF args.repo_url = None
    THEN MainOutcome(2, <<>>, <<"error: the following arguments are required: repo_url">>, <<>>)
    ELSE IF api_key_missing(api_key)
    THEN MainOutcome(2, <<>>, <<"ERROR: OPENAI_API_KEY is required">>, <<>>)
    ELSE IF parse_github_repo_url(args.repo_url) = "ValueError"
    THEN MainOutcome(2, <<>>, <<"ERROR: Invalid repository URL", "DETAILS">>, <<>>)
    ELSE IF validate_price_overrides(args.price_in, args.price_out) = "ValueError"
    THEN MainOutcome(2, <<>>, <<"ERROR: ValueError">>, <<>>)
    ELSE LET pricing_used == for_model(args.model, args.price_in, args.price_out,
                                       args.price_cached_in, EnvUnset)
             parsed == IF args.verbose THEN <<"parsed repo">> ELSE <<>>
             raised == IF run # "returns" THEN run
                       ELSE IF write # "ok" THEN write ELSE "none"
         IN  IF raised = "none"
             THEN MainOutcome(0, <<"output">>, parsed, <<pricing_used>>)
             ELSE MainOutcome(run_exit_code(raised), <<>>,
                              Append(parsed, IF raised = "KeyboardInterrupt"
                                             THEN "Interrupted by user."
                                             ELSE "ERROR: exception"),
                              <<pricing_used>>)

\* ------------------------------------------------------------------- inputs
PricingMini == [in_per_1m |-> 4, out_per_1m |-> 16, cached_in_per_1m |-> 1]
PricingZero == [in_per_1m |-> 0, out_per_1m |-> 0, cached_in_per_1m |-> 0]
Pricings == {PricingMini, PricingZero}

\* max_cost of 4 micro-dollars, in units of 1e-7 USD
CostCeiling == 40

Refs == {"", "release/v1"}

\* usage entries one invocation reports
UsageEntries ==
    { <<>>,
      << ("input_tokens" :> 1) @@ ("cached_input_tokens" :> 1) >>,
      << [input_tokens |-> 2, output_tokens |-> 1, cached_input_tokens |-> 1],
         ("input_tokens" :> 1) >> }

\* results whose text is not in final_output: in a later attribute, in the
\* messages, in chunks of a message, or nowhere
ShapedResults ==
    LET usage == << ("input_tokens" :> 1) @@ ("cached_input_tokens" :> 1) >>
        none == [k \in {} |-> ""]
        shaped(attrs, messages) == [attrs |-> attrs, entries |-> usage, messages |-> messages]
    IN  {shaped(("final_output" :> TxtBlank) @@ ("output_text" :> TxtDone) @@ ("text" :> TxtMore),
                <<Message(TRUE, [t |-> "str", v |-> TxtProse])>>),
         shaped(none, <<Message(TRUE, [t |-> "str", v |-> TxtMore]),
                        Message(FALSE, [t |-> "str", v |-> TxtDone]),
                        Message(TRUE, [t |-> "str", v |-> TxtBlank]),
                        Message(FALSE, [t |-> "null", v |-> ""])>>),
         shaped("final_output" :> TxtBlank,
                <<Message(TRUE, [t |-> "list",
                                 v |-> <<Chunk("output_text", TxtPlan), Chunk("image", "x"),
                                         Chunk("text", "")>>])>>),
         shaped(none, <<Message(TRUE, [t |-> "list",
                                       v |-> <<Chunk("output_text", "one"),
                                               Chunk("text", "two")>>]),
                        Message(FALSE, [t |-> "list", v |-> <<Chunk("text", "lost")>>])>>),
         shaped(none, <<Message(TRUE, [t |-> "list", v |-> <<Chunk("text", " ")>>]),
                        Message(FALSE, [t |-> "str", v |-> TxtBlank])>>)}

RunResults ==
    { [attrs |-> ("final_output" :> t), entries |-> e, messages |-> <<>>] :
        t \in ModelTexts, e \in UsageEntries } \cup ShapedResults

OverviewAgent == "Repo Overview Agent"
DeepDiveAgent == "Repo Deep Dive Agent"
ReadingPlanAgent == "Repo Reading Plan Agent"

\* nothing returned yet
NoOutcome == [stopped_reason |-> "none"]

\* -------------------------------------------------------------------- state
VARIABLES
    pc,                  \* position in run_briefing_loop
    repo_url, ref, max_iters, max_tokens, max_cost, pricing,   \* arguments
    repo_context,        \* the context, None before it is built
    context_calls,       \* the ref of every fetch_repo_context_impl call made
    context_failure,     \* which request of the context build raised
    accumulated_tokens, accumulated_cost, total_requests,
    warnings, briefing, files_to_inspect, it, reading_plan_markdown,
    calls,               \* agents of the Runner.run_sync calls started
    results,             \* usage entries of the Runner.run_sync calls returned
    last_text,           \* final text of the latest returned call, "" when it has none
    last_result,         \* the result of the latest returned call
    ever_exceeded,       \* a ceiling was reached at some point of the run
    refused,             \* stages not started because of the budget
    raised,              \* the exception run_briefing_loop raised
    outcome,             \* the returned dictionary, NoOutcome before the return
    h_pc,                \* position in safe_get_json
    attempt,             \* its loop variable
    gets,                \* GET requests made by the call
    sleeps,              \* durations of its time.sleep calls, in ms
    last_error,          \* its last_error variable
    last_response,       \* what the latest GET gave
    h_out,               \* what the call returned or raised
    fn, fn_in, fn_out,   \* a library function, its arguments and its result
    fn_pc                \* whether that function has returned

vars == <<pc, repo_url, ref, max_iters, max_tokens, max_cost, pricing,
          repo_context, context_calls, context_failure,
          accumulated_tokens, accumulated_cost, total_requests,
          warnings, briefing, files_to_inspect, it, reading_plan_markdown,
          calls, results, last_text, last_result, ever_exceeded, refused, raised, outcome,
          h_pc, attempt, gets, sleeps, last_error, last_response, h_out,
          fn, fn_in, fn_out, fn_pc>>

http_vars == <<h_pc, attempt, gets, sleeps, last_error, last_response, h_out>>
fn_vars == <<fn, fn_in, fn_out, fn_pc>>

\* no safe_get_json call is being followed
HttpIdle ==
    /\ h_pc = "idle"
    /\ attempt = 0
    /\ gets = 0
    /\ sleeps = <<>>
    /\ last_error = NoError
    /\ last_response = NoResponse
    /\ h_out = NoOut

\* no library function is being applied
FnIdle ==
    /\ fn = "none"
    /\ fn_in = None
    /\ fn_out = None
    /\ fn_pc = "idle"

args == <<repo_url, ref, max_iters, max_tokens, max_cost, pricing>>
context_vars == <<repo_context, context_calls, context_failure>>
totals_vars == <<accumulated_tokens, accumulated_cost, total_requests>>

Exceeded == budget_exceeded(max_tokens, accumulated_tokens, max_cost, accumulated_cost)

Init ==
    /\ pc = "start"
    /\ repo_url \in {UrlGood, UrlSsh}
    /\ ref \in Refs
    /\ max_iters \in 0..MaxItersBound
    /\ max_tokens \in {0, MaxTokensBound}
    /\ max_cost \in {0, CostCeiling}
    /\ pricing \in Pricings
    /\ repo_context = None
    /\ context_calls = <<>>
    /\ context_failure = "none"
    /\ accumulated_tokens = 0
    /\ accumulated_cost = 0
    /\ total_requests = 0
    /\ warnings = <<>>
    /\ briefing = ""
    /\ files_to_inspect = JList(<<>>)
    /\ it = 0
    /\ reading_plan_markdown = ""
    /\ calls = <<>>
    /\ results = <<>>
    /\ last_text = ""
    /\ last_result = None
    /\ ever_exceeded = FALSE
    /\ refused = {}
    /\ raised = "none"
    /\ outcome = NoOutcome
    /\ HttpIdle
    /\ FnIdle

\* ------------------------------------------------------------------ actions
\* warnings.append(...) entries: the stage the message names, and the
\* iteration number a deep-dive message carries (0 for the other stages)
Warning(stage, n) == [stage |-> stage, it |-> n]

\* the returned dictionary (lines 370-393)
build_outcome(brief, plan, tokens, cost_rounded, requests, warns, reason) ==
    [briefing_markdown |-> brief,
     reading_plan_markdown |-> plan,
     usage |-> [total_tokens |-> tokens,
                estimated_cost_usd |-> cost_rounded,
                requests |-> requests],
     stopped_reason |-> reason,
     warnings |-> warns]

\* the running briefing never replaced by a deep-dive stage
deep_briefing_kept(data2, prior) == prior

\* the running briefing after a deep-dive stage: data2.get("briefing_markdown", briefing)
deep_briefing(data2, prior) ==
    IF "briefing_markdown" \in DOMAIN data2 THEN data2["briefing_markdown"].v ELSE prior

\* the totals overwritten by (not raised by) the usage of one returned invocation
Accumulate_overwriting(result) ==
    /\ accumulated_tokens' = usage_totals(result).total_tokens
    /\ accumulated_cost' = estimate_cost_usd(result, pricing)
    /\ total_requests' = usage_totals(result).requests
    /\ results' = Append(results, result.entries)
    /\ last_text' = IF get_final_text(result) = NoOutput THEN "" ELSE get_final_text(result)
    /\ last_result' = result
    /\ ever_exceeded' =
          (ever_exceeded
           \/ (max_tokens > 0 /\ accumulated_tokens' >= max_tokens)
           \/ (max_cost > 0 /\ accumulated_cost' >= max_cost))

\* accumulated_* += ... of one returned invocation
Accumulate(result) ==
    /\ accumulated_tokens' = accumulated_tokens + usage_totals(result).total_tokens
    /\ accumulated_cost' = accumulated_cost + estimate_cost_usd(result, pricing)
    /\ total_requests' = total_requests + usage_totals(result).requests
    /\ results' = Append(results, result.entries)
    /\ last_text' = IF get_final_text(result) = NoOutput THEN "" ELSE get_final_text(result)
    /\ last_result' = result
    /\ ever_exceeded' =
          (ever_exceeded
           \/ (max_tokens > 0 /\ accumulated_tokens' >= max_tokens)
           \/ (max_cost > 0 /\ accumulated_cost' >= max_cost))

\* lines 239-246: the one context build, which may raise
FetchRepoContext ==
    /\ pc = "start"
    /\ \E meta_resp \in MetaResponses, branch_resp \in ShaResponses,
          commit_resp \in ShaResponses, tree_resp \in TreeResponses :
         LET built == fetch_repo_context_impl(repo_url, context_ref_arg(ref), meta_resp,
                                              branch_resp, commit_resp, tree_resp)
             tree_sha == IF branch_resp = "RuntimeError" THEN commit_resp ELSE branch_resp
         IN  /\ context_calls' = Append(context_calls, context_ref_arg(ref))
             /\ context_failure' =
                    IF repo_url # UrlGood THEN "url"
                    ELSE IF ref = "" /\ meta_resp = "RuntimeError" THEN "metadata"
                    ELSE IF tree_sha # "sha" \/ tree_resp = "RuntimeError" THEN "tree"
                    ELSE "none"
             /\ repo_context' = built.context
             /\ raised' = built.raised
             /\ pc' = IF built.raised = "none" THEN "overview" ELSE "raised"
    /\ UNCHANGED <<args, totals_vars, warnings, briefing, files_to_inspect, it,
                   reading_plan_markdown, calls, results, last_text, last_result, ever_exceeded, refused, outcome>>
    /\ UNCHANGED <<http_vars, fn_vars>>

\* lines 254-274: Runner.run_sync(OverviewAgent, ...) is called
OverviewInvoke ==
    /\ pc = "overview"
    /\ calls' = Append(calls, OverviewAgent)
    /\ pc' = "overview_wait"
    /\ UNCHANGED <<args, context_vars, totals_vars, warnings, briefing, files_to_inspect,
                   it, reading_plan_markdown, results, last_text, last_result, ever_exceeded, refused, raised,
                   outcome>>
    /\ UNCHANGED <<http_vars, fn_vars>>

\* lines 275-295: the overview result is accounted for and parsed
OverviewReturn ==
    /\ pc = "overview_wait"
    /\ \E result \in RunResults :
         LET overview_text == get_final_text(result)
             data0 == json_or_fallback(overview_text, "briefing_markdown")
             valid == validate_overview_output(data0)
             data == IF valid THEN data0
                     ELSE text_fallback("briefing_markdown", overview_text)
         IN  /\ Accumulate(result)
             /\ IF overview_text = NoOutput
                THEN /\ pc' = "raised"
                     /\ raised' = NoOutput
                     /\ UNCHANGED <<warnings, briefing, files_to_inspect>>
                ELSE /\ pc' = "loop"
                     /\ raised' = raised
                     /\ warnings' = IF valid THEN warnings
                                    ELSE Append(warnings, Warning("overview", 0))
                     /\ briefing' = data["briefing_markdown"].v
                     /\ files_to_inspect' = pending_files(data)
    /\ it' = 0
    /\ UNCHANGED <<args, context_vars, reading_plan_markdown, calls, refused, outcome>>
    /\ UNCHANGED <<http_vars, fn_vars>>

\* lines 296-319: the loop test passes and Runner.run_sync(DeepDiveAgent, ...)
\* is called
DeepDiveInvoke ==
    /\ pc = "loop"
    /\ deep_dive_continues(it, max_iters, files_to_inspect, Exceeded)
    /\ it' = it + 1
    /\ calls' = Append(calls, DeepDiveAgent)
    /\ pc' = "deep_wait"
    /\ UNCHANGED <<args, context_vars, totals_vars, warnings, briefing, files_to_inspect,
                   reading_plan_markdown, results, last_text, last_result, ever_exceeded, refused, raised, outcome>>
    /\ UNCHANGED <<http_vars, fn_vars>>

\* lines 320-335: the deep-dive result is accounted for and parsed
DeepDiveReturn ==
    /\ pc = "deep_wait"
    /\ \E result \in RunResults :
         LET deep_text == get_final_text(result)
             data0 == json_or_fallback(deep_text, "briefing_markdown")
             valid == validate_deep_dive_output(data0)
             data2 == IF valid THEN data0
                      ELSE text_fallback("briefing_markdown", deep_text)
         IN  /\ Accumulate(result)
             /\ IF deep_text = NoOutput
                THEN /\ pc' = "raised"
                     /\ raised' = NoOutput
                     /\ UNCHANGED <<warnings, briefing, files_to_inspect>>
                ELSE /\ pc' = "loop"
                     /\ raised' = raised
                     /\ warnings' = IF valid THEN warnings
                                    ELSE Append(warnings, Warning("deep dive", it))
                     /\ briefing' = deep_briefing(data2, briefing)
                     /\ files_to_inspect' = pending_files(data2)
    /\ UNCHANGED <<args, context_vars, it, reading_plan_markdown, calls, refused, outcome>>
    /\ UNCHANGED <<http_vars, fn_vars>>

\* the stages the loop exit leaves unstarted for the budget alone
RefusedAtExit ==
    IF Exceeded
    THEN refused \cup {"reading plan"}
                 \cup (IF it < max_iters /\ Truthy(files_to_inspect)
                       THEN {"deep dive"} ELSE {})
    ELSE refused

\* lines 296, 337-355: the loop is left, the budget allows the reading plan
\* and Runner.run_sync(ReadingPlanAgent, ...) is called
ReadingPlanInvoke ==
    /\ pc = "loop"
    /\ ~deep_dive_continues(it, max_iters, files_to_inspect, Exceeded)
    /\ ~Exceeded
    /\ reading_plan_markdown' = ""
    /\ calls' = Append(calls, ReadingPlanAgent)
    /\ pc' = "rp_wait"
    /\ UNCHANGED <<args, context_vars, totals_vars, warnings, briefing, files_to_inspect,
                   it, results, last_text, last_result, ever_exceeded, refused, raised, outcome>>
    /\ UNCHANGED <<http_vars, fn_vars>>

\* lines 296, 337-338, 370-393: the loop is left with the budget exceeded; the
\* reading plan is skipped and the outcome returned
ReadingPlanSkip ==
    /\ pc = "loop"
    /\ ~deep_dive_continues(it, max_iters, files_to_inspect, Exceeded)
    /\ Exceeded
    /\ reading_plan_markdown' = ""
    /\ refused' = RefusedAtExit
    /\ \E cost_rounded \in Round6(accumulated_cost) :
         outcome' = build_outcome(briefing, "", accumulated_tokens, cost_rounded,
                                  total_requests, warnings,
                                  stopped_reason_of(max_tokens, accumulated_tokens,
                                                    max_cost, accumulated_cost))
    /\ pc' = "done"
    /\ UNCHANGED <<args, context_vars, totals_vars, warnings, briefing, files_to_inspect,
                   it, calls, results, last_text, last_result, ever_exceeded, raised>>
    /\ UNCHANGED <<http_vars, fn_vars>>

\* lines 356-393: the reading-plan result is accounted for and parsed, and the
\* outcome returned
ReadingPlanReturn ==
    /\ pc = "rp_wait"
    /\ \E result \in RunResults :
         LET reading_plan_text == get_final_text(result)
             data0 == json_or_fallback(reading_plan_text, "reading_plan_markdown")
             valid == validate_reading_plan_output(data0)
             rp_data == IF valid THEN data0
                        ELSE text_fallback("reading_plan_markdown", reading_plan_text)
         IN  /\ Accumulate(result)
             /\ IF reading_plan_text = NoOutput
                THEN /\ pc' = "raised"
                     /\ raised' = NoOutput
                     /\ UNCHANGED <<warnings, reading_plan_markdown, outcome>>
                ELSE /\ pc' = "done"
                     /\ raised' = raised
                     /\ warnings' = IF valid THEN warnings
                                    ELSE Append(warnings, Warning("reading plan", 0))
                     /\ reading_plan_markdown' = rp_data["reading_plan_markdown"].v
                     /\ \E cost_rounded \in Round6(accumulated_cost') :
                          outcome' = build_outcome(briefing, reading_plan_markdown',
                                          accumulated_tokens', cost_rounded,
                                          total_requests', warnings',
                                          stopped_reason_of(max_tokens, accumulated_tokens',
                                                            max_cost, accumulated_cost'))
    /\ UNCHANGED <<args, context_vars, briefing, files_to_inspect, it, calls, refused>>
    /\ UNCHANGED <<http_vars, fn_vars>>

\* Runner.run_sync raises instead of returning: nothing catches it
RunSyncRaises ==
    /\ pc \in {"overview_wait", "deep_wait", "rp_wait"}
    /\ pc' = "raised"
    /\ raised' = "RunnerError"
    /\ UNCHANGED <<args, context_vars, totals_vars, warnings, briefing, files_to_inspect,
                   it, reading_plan_markdown, calls, results, last_text, last_result, ever_exceeded, refused,
                   outcome>>
    /\ UNCHANGED <<http_vars, fn_vars>>

Next ==
    \/ FetchRepoContext
    \/ OverviewInvoke
    \/ OverviewReturn
    \/ DeepDiveInvoke
    \/ DeepDiveReturn
    \/ ReadingPlanInvoke
    \/ ReadingPlanSkip
    \/ ReadingPlanReturn
    \/ RunSyncRaises

Spec == Init /\ [][Next]_vars

TypeOK ==
    /\ pc \in {"idle", "start", "overview", "overview_wait", "loop", "deep_wait", "rp_wait",
               "done", "raised"}
    /\ it \in 0..(MaxItersBound + 1)
    /\ accumulated_tokens \in Nat
    /\ total_requests \in Nat

\* ----------------------------------------------- safe_get_json as a process
main_vars == <<pc, repo_url, ref, max_iters, max_tokens, max_cost, pricing,
               repo_context, context_calls, context_failure,
               accumulated_tokens, accumulated_cost, total_requests, warnings,
               briefing, files_to_inspect, it, reading_plan_markdown,
               calls, results, last_text, last_result, ever_exceeded, refused, raised,
               outcome>>

\* no briefing run is being followed
MainIdle ==
    /\ pc = "idle"
    /\ repo_url = UrlGood
    /\ ref = ""
    /\ max_iters = 0
    /\ max_tokens = 0
    /\ max_cost = 0
    /\ pricing = PricingZero
    /\ repo_context = None
    /\ context_calls = <<>>
    /\ context_failure = "none"
    /\ accumulated_tokens = 0
    /\ accumulated_cost = 0
    /\ total_requests = 0
    /\ warnings = <<>>
    /\ briefing = ""
    /\ files_to_inspect = JList(<<>>)
    /\ it = 0
    /\ reading_plan_markdown = ""
    /\ calls = <<>>
    /\ results = <<>>
    /\ last_text = ""
    /\ last_result = None
    /\ ever_exceeded = FALSE
    /\ refused = {}
    /\ raised = "none"
    /\ outcome = NoOutcome

LongBodyChars == 205

JsonBody == <<"{", "}">>
HtmlBody == <<"<", "h", "1", ">", "\n", "o", "o", "p", "s">>
LongHtmlBody == [i \in 1..LongBodyChars |-> IF i % 50 = 0 THEN "\n" ELSE "x"]

ResetValues == {None, "1700000000", "soon"}
RetryAfterValues == {None, "7", "30", "-5", "Wed, 21 Oct 2026 07:28:00 GMT"}

\* what a GET can give
Responses ==
    {Response(200, NoHeaders, TRUE, JsonBody),
     Response(200, NoHeaders, FALSE, HtmlBody),
     Response(200, NoHeaders, FALSE, LongHtmlBody),
     Response(404, NoHeaders, TRUE, JsonBody),
     Response(403, [NoHeaders EXCEPT !.remaining = "59"], TRUE, JsonBody),
     Response(502, NoHeaders, FALSE, HtmlBody),
     Response(503, [NoHeaders EXCEPT !.retry_after = "7"], TRUE, JsonBody),
     ConnectionFailure}
    \cup {Response(403, [NoHeaders EXCEPT !.remaining = "0", !.reset = r],
                   TRUE, JsonBody) : r \in ResetValues}
    \cup {Response(429, [NoHeaders EXCEPT !.retry_after = a], TRUE, JsonBody) :
              a \in RetryAfterValues}

\* samples of random.uniform(0.0, 0.05)
Jitters == {0, 25, JITTER_MAX_MS}

InitHttp ==
    /\ MainIdle
    /\ FnIdle
    /\ h_pc = "loop"
    /\ attempt = 0
    /\ gets = 0
    /\ sleeps = <<>>
    /\ last_error = NoError
    /\ last_response = NoResponse
    /\ h_out = NoOut

\* one pass of the for loop of safe_get_json: the GET, then what follows it
SafeGetJsonAttempt ==
    /\ h_pc = "loop"
    /\ attempt <= MAX_RETRIES
    /\ \E response \in Responses, jitter \in Jitters :
         LET step == loop_body(response, attempt, jitter, last_error)
         IN  /\ gets' = gets + 1
             /\ last_response' = response
             /\ last_error' = step.last_error
             /\ sleeps' = IF step.sleep # NoRetryAfter
                          THEN Append(sleeps, step.sleep) ELSE sleeps
             /\ h_out' = step.out
             /\ h_pc' = CASE step.next = "continue" -> "loop"
                          [] step.next = "return"   -> "done"
                          [] OTHER                  -> "raised"
             /\ attempt' = IF step.next = "continue" THEN attempt + 1
                           ELSE attempt
    /\ UNCHANGED <<main_vars, fn_vars>>

NextHttp ==
    SafeGetJsonAttempt

SpecHttp == InitHttp /\ [][NextHttp]_vars

\* ------------------------------------------------------------- termination
\* a run of run_briefing_loop, or a call of safe_get_json, carried on for as
\* long as it has a step to take: Python runs the next statement whenever the
\* engine or the GET it waits for has come back
InitLive ==
    \/ /\ Init
       /\ repo_url = UrlGood
       /\ ref = ""
       /\ pricing = PricingMini
       /\ max_cost = 0
       /\ max_tokens = MaxTokensBound
    \/ InitHttp

NextLive ==
    \/ Next
    \/ NextHttp

\* every step of either process moves its position or its loop variable
position_vars == <<pc, h_pc, attempt>>

SpecLive == InitLive /\ [][NextLive]_vars /\ WF_position_vars(NextLive)

\* ------------------------------------------------- the library functions
\* Each behaviour applies one function once to one argument list.

MaxEntries == 2

TokenCounts == {1, 2}

UsageFields == {"input_tokens", "output_tokens", "cached_input_tokens"}

\* a usage entry has any of the three counts, or lacks it
EntryValues ==
    UNION {[present -> TokenCounts] : present \in SUBSET UsageFields}

EntryLists(most) ==
    UNION {[1..n -> EntryValues] : n \in 0..most}

UsageResults(most) == {[entries |-> entries] : entries \in EntryLists(most)}

MaxTextLen == 21

Alphabet ==
    <<"a", "b", "c", "d", "e", "f", "g", "h", "i", "j", "k", "l", "m",
      "n", "o", "p", "q", "r", "s", "t", "u", "v", "w", "x", "y", "z">>

\* one text of every length up to longest
Texts(longest) ==
    {[i \in 1..n |-> Alphabet[((i - 1) % 26) + 1]] : n \in 0..longest}

TruncateArgs(longest) ==
    {[text |-> text, max_chars |-> n] :
        text \in Texts(longest), n \in (0 - 1)..(longest + 1)}

MaxPaths == 3

\* files and directories of a small tree, directories ending with "/"
SummaryPaths ==
    {<<"b">>,
     <<"Z">>,
     <<"a", "/">>,
     <<"a", "/", "c">>,
     <<"a", "-", "b", "/", "c">>,
     <<"a", "/", "b", "/">>,
     <<"a", "/", "b", "/", "c">>,
     <<"c", "/", "d">>}

\* lists of distinct paths, as the keys of a tree index are
PathLists(pool, longest) ==
    {paths \in UNION {[1..n -> pool] : n \in 0..longest} :
        \A i, j \in 1..Len(paths) : i # j => paths[i] # paths[j]}

TreeSummaryArgs(longest) ==
    {[paths |-> paths, max_entries |-> n] :
        paths \in PathLists(SummaryPaths, longest), n \in 0..(longest + 1)}

MaxTreePaths == 3

\* a repository's paths with their types; Makefile is a directory here
TreePool ==
    {<<<<"R", "E", "A", "D", "M", "E", ".", "m", "d">>, "blob">>,
     <<<<"L", "I", "C", "E", "N", "S", "E">>, "blob">>,
     <<<<"M", "a", "k", "e", "f", "i", "l", "e">>, "tree">>,
     <<<<"s", "r", "c", "/", "m", "a", "i", "n", ".", "p", "y">>, "blob">>,
     <<<<"s", "r", "c", "/", "A", "p", "p", ".", "p", "y">>, "blob">>,
     <<<<"p", "k", "g", "/", "d", "o", "c", "s", "/", "a", ".", "m", "d">>, "blob">>,
     <<<<"d", "o", "c", "s", "/", "b", ".", "r", "s", "t">>, "blob">>,
     <<<<"m", "a", "i", "n", ".", "p", "y">>, "blob">>}

\* the tree indexes of at most a number of paths of the pool
TreeIndexes(most) ==
    {[path \in {item[1] : item \in items} |->
         (CHOOSE item \in items : item[1] = path)[2]] :
        items \in {chosen \in SUBSET TreePool : Cardinality(chosen) <= most}}

PickKeyFilesArgs(most) ==
    {[tree_index |-> tree_index, max_files |-> n] :
        tree_index \in TreeIndexes(most), n \in 0..most}

\* the orders in which a set can be enumerated
Enumerations(set) ==
    {order \in [1..Cardinality(set) -> set] :
        \A i, j \in 1..Cardinality(set) : i # j => order[i] # order[j]}

MaxRequested == 2

\* paths a caller may ask for: plain, padded and rooted, nested, a lone
\* slash, blank
RequestedPaths ==
    {<<"a", ".", "p", "y">>,
     <<" ", "/", "a", ".", "p", "y">>,
     <<"b", "/", "c", ".", "m", "d">>,
     <<"/">>,
     <<" ">>}

MetaReplies == {"main", "develop", "no_default_branch", "RuntimeError"}

FetchFilesArgs(most) ==
    UNION {{[paths |-> paths, default_branch |-> default_branch,
             ref |-> given_ref, meta_resp |-> meta_resp, replies |-> replies] :
               paths \in [1..n -> RequestedPaths],
               default_branch \in {None, "main"},
               given_ref \in Refs,
               meta_resp \in {"develop", "RuntimeError"},
               replies \in [1..n -> FileReplies]} : n \in 0..most}

\* the trees of the context builds of the model
ContextTreePool ==
    {<<"R", "E", "A", "D", "M", "E", ".", "m", "d">>,
     <<"s", "r", "c", "/", "m", "a", "i", "n", ".", "p", "y">>,
     <<"p", "k", "g", "/", "d", "o", "c", "s", "/", "a", ".", "m", "d">>}

ContextTrees ==
    {[path \in paths |-> "blob"] : paths \in SUBSET ContextTreePool}

\* the default ceilings of fetch_repo_context_impl
DefaultCeilings ==
    [max_readme_chars |-> MAX_README_CHARS, max_tree_entries |-> MAX_TREE_ENTRIES,
     max_file_chars |-> MAX_FILE_CHARS]

\* ceilings below the sizes of the model's files and trees, zero included
SmallCeilings ==
    {[max_readme_chars |-> 0, max_tree_entries |-> 0, max_file_chars |-> 0],
     [max_readme_chars |-> 3, max_tree_entries |-> 2, max_file_chars |-> 4],
     [max_readme_chars |-> 4, max_tree_entries |-> 1, max_file_chars |-> 3],
     [max_readme_chars |-> 3, max_tree_entries |-> 0, max_file_chars |-> MAX_FILE_CHARS],
     [max_readme_chars |-> MAX_README_CHARS, max_tree_entries |-> 2, max_file_chars |-> 0]}

\* a tree with a directory and a path under an excluded prefix
MixedTree ==
    (<<"R", "E", "A", "D", "M", "E", ".", "m", "d">> :> "blob") @@ (<<"s", "r", "c">> :> "tree") @@ (<<"s", "r", "c", "/", "m", "a", "i", "n", ".", "p", "y">> :> "blob") @@ (<<"d", "i", "s", "t", "/", "x", ".", "j", "s">> :> "blob")

\* context builds whose lookups succeed, under small ceilings
SmallCeilingArgs ==
    {[ref |-> "release/v1", meta_resp |-> "main",
      branch_resp |-> "sha", commit_resp |-> "sha",
      tree_resp |-> "tree", tree_index |-> MixedTree,
      replies |-> replies, readme_reply |-> readme_reply,
      max_key_files |-> max_key_files, ceilings |-> ceilings,
      runtime_error |-> "other"] :
        replies \in {[path \in DOMAIN MixedTree |->
                          IF path = <<"R", "E", "A", "D", "M", "E", ".", "m", "d">> THEN readme ELSE other] :
                      readme \in {"file", "RuntimeError"},
                      other \in {"file", "RuntimeError"}},
        readme_reply \in {"file", "RuntimeError"},
        max_key_files \in {0, 1, 12},
        ceilings \in SmallCeilings}

\* builds in which the RuntimeError safe_get_json raises is its rate-limit
\* error (a 403 with no requests remaining), at any of the requests
RateLimitedArgs ==
    {[ref |-> given_ref, meta_resp |-> meta_resp,
      branch_resp |-> branch_resp, commit_resp |-> commit_resp,
      tree_resp |-> tree_resp, tree_index |-> tree_index,
      replies |-> replies, readme_reply |-> readme_reply,
      max_key_files |-> 12, ceilings |-> DefaultCeilings,
      runtime_error |-> "rate_limit"] :
        given_ref \in Refs,
        meta_resp \in {"main", "RuntimeError"},
        branch_resp \in {"sha", "RuntimeError"},
        commit_resp \in {"sha", "RuntimeError"},
        tree_resp \in TreeResponses,
        tree_index \in {(<<"R", "E", "A", "D", "M", "E", ".", "m", "d">> :> "blob") @@ (<<"s", "r", "c", "/", "m", "a", "i", "n", ".", "p", "y">> :> "blob")},
        replies \in [{<<"R", "E", "A", "D", "M", "E", ".", "m", "d">>, <<"s", "r", "c", "/", "m", "a", "i", "n", ".", "p", "y">>} -> {"file", "RuntimeError"}],
        readme_reply \in {"file", "RuntimeError"}}

FetchContextArgs(trees) ==
    SmallCeilingArgs \cup RateLimitedArgs \cup
    UNION {{[ref |-> given_ref, meta_resp |-> meta_resp,
             branch_resp |-> branch_resp, commit_resp |-> commit_resp,
             tree_resp |-> tree_resp, tree_index |-> tree_index,
             replies |-> replies, readme_reply |-> readme_reply,
             max_key_files |-> max_key_files, ceilings |-> DefaultCeilings,
             runtime_error |-> "other"] :
               given_ref \in Refs,
               meta_resp \in MetaReplies,
               branch_resp \in ShaResponses,
               commit_resp \in {"sha", "RuntimeError"},
               tree_resp \in TreeResponses,
               replies \in [DOMAIN tree_index -> FileReplies],
               readme_reply \in {"file", "RuntimeError"},
               max_key_files \in {2, 12}} : tree_index \in trees}

\* the texts json_or_fallback is applied to, with either fallback key
JsonOrFallbackArgs ==
    {[text |-> text, fallback_key |-> key] :
        text \in ModelTexts \cup {TxtArray, TxtFencedObject, TxtFenced,
                                  TxtEmbeddedObject, TxtEmbedded, TxtBroken},
        key \in {"briefing_markdown", "reading_plan_markdown"}}

\* the environments of a process: each PRICE_* variable unset, empty or a number
Environments ==
    [price_in : {None, "", "9.5"}, price_out : {None, "10.5"},
     price_cached_in : {None, "", "1.5"}]

\* a call of Pricing.for_model in a process that imported the module under
\* import_env and whose environment is call_env at the call
ForModelArgs ==
    [model : {"gpt-4.1-mini", "gpt-4.1", "o3"},
     price_in : {NoPrice, Price(0), Price(300)},
     price_out : {NoPrice, Price(700)},
     price_cached_in : {NoPrice, Price(0)},
     import_env : {EnvUnset, [price_in |-> "3", price_out |-> "10.5", price_cached_in |-> None]},
     call_env : Environments]

\* outcomes handed to render_output: briefings and plans with and without
\* trailing whitespace, the plan also empty or missing
RenderBriefings == {<<"#", " ", "B", "r", "i", "e", "f", "\n">>, <<"b", "r", "i", "e", "f">>}
RenderPlans == {<<>>, <<"#", "#", " ", "P", "l", "a", "n", "\n">>, <<"p", "l", "a", "n">>}
RenderResults ==
    {("briefing_markdown" :> b) @@ ("stopped_reason" :> reason)
        @@ ("usage" :> [estimated_cost_usd |-> cost, total_tokens |-> tokens,
                        requests |-> requests]) @@ plan :
        b \in RenderBriefings, reason \in {"completed", "budget_exceeded"},
        cost \in {0, 1000000}, tokens \in {0, 123}, requests \in {1, 2},
        plan \in {<<>>} \cup {"reading_plan_markdown" :> p : p \in RenderPlans}}
RenderOutputArgs ==
    [result : RenderResults, output_format : {"markdown", "json"}]

\* calls of write_output: a text, a path (None without --output) and the
\* directories that exist
WriteOutputArgs ==
    [output_text : {<<>>, <<"h", "i">>},
     output_path : {None, "", "-", "brief.md", "out/brief.md", "a/b/brief.md"},
     dirs : {{}, {"a"}, {"out"}, {"a", "a/b"}}]

\* command lines, environments and runs of cli.main
MainArgs ==
    [args : [version : BOOLEAN, repo_url : {None, UrlGood, UrlSsh},
             model : {"gpt-4.1-mini"}, verbose : BOOLEAN,
             price_in : {NoPrice, Price(0), Price(300)},
             price_out : {NoPrice, Price(700)},
             price_cached_in : {NoPrice}],
     api_key : {None, "", "  ", "sk-test"},
     run : {"returns", "KeyboardInterrupt", "RuntimeError"},
     write : {"ok", "OSError"}]

\* what the three requests of fetch_repo_tree give
FetchRepoTreeArgs ==
    [branch_resp : ShaResponses, commit_resp : ShaResponses, tree_resp : TreeResponses]

LibInputs ==
    \/ fn = "usage_totals" /\ fn_in \in UsageResults(MaxEntries)
    \/ fn = "truncate" /\ fn_in \in TruncateArgs(MaxTextLen)
    \/ fn = "tree_summary" /\ fn_in \in TreeSummaryArgs(MaxPaths)
    \/ fn = "pick_key_files" /\ fn_in \in PickKeyFilesArgs(MaxTreePaths)
    \/ fn = "fetch_files_impl" /\ fn_in \in FetchFilesArgs(MaxRequested)
    \/ fn = "fetch_repo_context_impl" /\ fn_in \in FetchContextArgs(ContextTrees)
    \/ fn = "json_or_fallback" /\ fn_in \in JsonOrFallbackArgs
    \/ fn = "for_model" /\ fn_in \in ForModelArgs
    \/ fn = "render_output" /\ fn_in \in RenderOutputArgs
    \/ fn = "write_output" /\ fn_in \in WriteOutputArgs
    \/ fn = "main" /\ fn_in \in MainArgs
    \/ fn = "fetch_repo_tree" /\ fn_in \in FetchRepoTreeArgs

InitLib ==
    /\ MainIdle
    /\ HttpIdle
    /\ fn_pc = "call"
    /\ fn_out = None
    /\ LibInputs

Returns(value) ==
    /\ fn_pc = "call"
    /\ fn_pc' = "return"
    /\ fn_out' = value
    /\ UNCHANGED <<fn, fn_in, main_vars, http_vars>>

ApplyUsageTotals ==
    /\ fn = "usage_totals"
    /\ Returns(usage_totals(fn_in))

ApplyTruncate ==
    /\ fn = "truncate"
    /\ Returns(truncate(fn_in.text, fn_in.max_chars))

ApplyTreeSummary ==
    /\ fn = "tree_summary"
    /\ Returns(tree_summary(fn_in.paths, fn_in.max_entries))

\* the set of paths is enumerated in an order the hashes decide
ApplyPickKeyFiles ==
    /\ fn = "pick_key_files"
    /\ \E iteration \in Enumerations(DOMAIN fn_in.tree_index) :
           Returns(pick_key_files(fn_in.tree_index, fn_in.max_files,
                                  iteration))

ApplyFetchFiles ==
    /\ fn = "fetch_files_impl"
    /\ Returns(fetch_files_impl(fn_in.paths, fn_in.default_branch, fn_in.ref,
                                fn_in.meta_resp, fn_in.replies,
                                FETCH_FILES_MAX_FILE_CHARS))

ApplyFetchRepoContext ==
    /\ fn = "fetch_repo_context_impl"
    /\ \E iteration \in Enumerations(DOMAIN fn_in.tree_index) :
           Returns(fetch_repo_context_impl_files(
                       fn_in.ref, fn_in.meta_resp, fn_in.branch_resp,
                       fn_in.commit_resp, fn_in.tree_resp, fn_in.tree_index,
                       iteration, fn_in.replies, fn_in.readme_reply,
                       fn_in.max_key_files, fn_in.ceilings.max_file_chars,
                       fn_in.ceilings.max_readme_chars, fn_in.ceilings.max_tree_entries))

ApplyJsonOrFallback ==
    /\ fn = "json_or_fallback"
    /\ Returns(json_or_fallback(fn_in.text, fn_in.fallback_key))

\* Pricing.for_model called after the import of budget.py
ApplyForModel ==
    /\ fn = "for_model"
    /\ Returns(for_model(fn_in.model, fn_in.price_in, fn_in.price_out, fn_in.price_cached_in,
                         env_prices(fn_in.import_env, fn_in.call_env)))

ApplyRenderOutput ==
    /\ fn = "render_output"
    /\ Returns(render_output(fn_in.result, fn_in.output_format))

ApplyWriteOutput ==
    /\ fn = "write_output"
    /\ Returns(write_output(fn_in.output_text, fn_in.output_path, fn_in.dirs))

ApplyMain ==
    /\ fn = "main"
    /\ Returns(main(fn_in.args, fn_in.api_key, fn_in.run, fn_in.write))

\* fetch_repo_tree: what it raised and the requests it made
ApplyFetchRepoTree ==
    /\ fn = "fetch_repo_tree"
    /\ Returns([raised |-> IF fetch_repo_tree(fn_in.branch_resp, fn_in.commit_resp,
                                               fn_in.tree_resp) = "ok"
                            THEN "none" ELSE "RuntimeError",
                 requests |-> fetch_repo_tree_requests(fn_in.branch_resp,
                                                       fn_in.commit_resp)])

NextLib ==
    \/ ApplyUsageTotals
    \/ ApplyTruncate
    \/ ApplyTreeSummary
    \/ ApplyPickKeyFiles
    \/ ApplyFetchFiles
    \/ ApplyFetchRepoContext
    \/ ApplyJsonOrFallback
    \/ ApplyForModel
    \/ ApplyRenderOutput
    \/ ApplyWriteOutput
    \/ ApplyMain
    \/ ApplyFetchRepoTree

SpecLib == InitLib /\ [][NextLib]_vars

\* ------------------------------------------------------- what the run did
\* an enabled ceiling is reached by the accumulated totals
CeilingReached ==
    \/ (max_tokens > 0 /\ accumulated_tokens >= max_tokens)
    \/ (max_cost > 0 /\ accumulated_cost >= max_cost)

Invoked(agent) == \E i \in DOMAIN calls : calls[i] = agent

DeepDiveCount == Cardinality({i \in DOMAIN calls : calls[i] = DeepDiveAgent})

\* sums over the invocations that returned, taken from their usage entries
RECURSIVE RanTokens(_)
RanTokens(rs) ==
    IF rs = <<>> THEN 0
    ELSE SumAttr(Head(rs), "input_tokens") + SumAttr(Head(rs), "output_tokens")
         + RanTokens(Tail(rs))

RECURSIVE RanRequests(_)
RanRequests(rs) ==
    IF rs = <<>> THEN 0 ELSE Len(Head(rs)) + RanRequests(Tail(rs))

RECURSIVE RanCost(_, _)
RanCost(rs, pr) ==
    IF rs = <<>> THEN 0
    ELSE SumAttr(Head(rs), "input_tokens") * pr.in_per_1m
         + SumAttr(Head(rs), "output_tokens") * pr.out_per_1m
         + SumAttr(Head(rs), "cached_input_tokens") * pr.cached_in_per_1m
         + RanCost(Tail(rs), pr)

\* the stage whose invocation is in flight
StageInFlight ==
    CASE pc = "overview_wait" -> "overview"
      [] pc = "deep_wait" -> "deep dive"
      [] pc = "rp_wait" -> "reading plan"
      [] OTHER -> "none"

\* the step is the return of an invocation whose final text is not JSON
MalformedReturn ==
    /\ Len(results') = Len(results) + 1
    /\ ~IsBlank(last_text')
    /\ JsonLoads(last_text').t = "JSONDecodeError"

\* the briefing a stage's final text stands for: the field of a valid
\* payload, else the raw text
StageBriefing(agent, text) ==
    LET payload == json_or_fallback(text, "briefing_markdown")
        valid == IF agent = OverviewAgent THEN validate_overview_output(payload)
                 ELSE validate_deep_dive_output(payload)
    IN  IF valid THEN payload["briefing_markdown"].v ELSE text

\* ------------------------------------------------------------------ claims
\* C1: once the accumulated totals have reached an enabled ceiling
\* (max_tokens > 0 and accumulated_tokens >= max_tokens, or max_cost > 0 and
\* accumulated_cost >= max_cost), no step of the run starts another
\* Runner.run_sync call: neither a deep-dive iteration nor the reading plan.
C1_NoInvocationAfterCeiling ==
    [][(ever_exceeded \/ CeilingReached) => calls' = calls]_vars

\* a finished run that refused a deep-dive iteration for the budget
C1_Witness ==
    /\ pc = "done"
    /\ ever_exceeded
    /\ "deep dive" \in refused
    /\ ~Invoked(ReadingPlanAgent)

\* C2: when the final text an invocation returns is malformed JSON, the run
\* does not raise, the stage result is the fallback built from the raw text
\* with an empty files_to_inspect, and exactly one warning naming the stage
\* is appended to warnings.
C2_MalformedJsonWarns ==
    [][MalformedReturn =>
         /\ pc' # "raised"
         /\ warnings' = Append(warnings, Warning(StageInFlight, it))
         /\ pc # "rp_wait" => (briefing' = last_text' /\ files_to_inspect' = JList(<<>>))
         /\ pc = "rp_wait" => reading_plan_markdown' = last_text']_vars

\* C3: a deep-dive iteration starts only when fewer than max_iters have
\* started, the files_to_inspect of the preceding stage is non-empty and no
\* ceiling is reached; the number of iterations never exceeds max_iters.
C3_DeepDiveStartsOnlyIf ==
    [][(Len(calls') > Len(calls) /\ calls'[Len(calls')] = DeepDiveAgent) =>
         /\ DeepDiveCount < max_iters
         /\ Truthy(files_to_inspect)
         /\ ~CeilingReached
         /\ DeepDiveCount' <= max_iters]_vars

\* a run that made a deep dive and stopped on an empty files_to_inspect with
\* iterations left and no ceiling reached
C3_Witness ==
    /\ pc = "done"
    /\ DeepDiveCount >= 1
    /\ DeepDiveCount < max_iters
    /\ files_to_inspect = JList(<<>>)
    /\ ~ever_exceeded

\* C4: the outcome's stopped_reason is budget_exceeded if the accumulated
\* tokens or cost reached an enabled ceiling at any point of the run, and
\* completed otherwise.
C4_StoppedReason ==
    pc = "done" =>
        outcome.stopped_reason = IF ever_exceeded THEN "budget_exceeded" ELSE "completed"

\* a run whose reading plan ran and was the stage that reached the cost ceiling
C4_Witness ==
    /\ pc = "done"
    /\ Invoked(ReadingPlanAgent)
    /\ max_tokens = 0
    /\ outcome.stopped_reason = "budget_exceeded"

\* C5: with max_cost = 0 and max_tokens = 0 the budget check is false whatever
\* the accumulated totals, no stage is refused for the budget, the reading
\* plan is invoked in every run that returns, and stopped_reason is completed.
C5_ZeroCeilingsDisable ==
    (max_cost = 0 /\ max_tokens = 0) =>
        /\ ~Exceeded
        /\ refused = {}
        /\ pc = "done" =>
              (Invoked(ReadingPlanAgent) /\ outcome.stopped_reason = "completed")

\* a returned run without ceilings whose totals are above the ceilings that
\* other runs use
C5_Witness ==
    /\ pc = "done"
    /\ max_cost = 0
    /\ max_tokens = 0
    /\ accumulated_tokens > MaxTokensBound + 1
    /\ accumulated_cost > CostCeiling

\* C6, as stated: the outcome's total_tokens, requests and estimated cost
\* equal the sums over exactly the invocations that were executed, and a
\* stage skipped for the budget adds nothing to usage, cost or warnings.
C6_UsageIsSumOfRan ==
    pc = "done" =>
        /\ Len(results) = Len(calls)
        /\ outcome.usage.total_tokens = RanTokens(results)
        /\ outcome.usage.requests = RanRequests(results)
        /\ outcome.usage.estimated_cost_usd * CostUnitsPerMicroUsd = RanCost(results, pricing)
        /\ Len(outcome.warnings) <= Len(results)

\* C6, amended: total_tokens and requests equal the sums over exactly the
\* invocations that were executed, the estimated cost is that sum of costs
\* rounded to 6 decimal places (it differs from the sum by at most half a
\* micro-dollar), and a skipped stage adds nothing to usage, cost or warnings.
C6_UsageIsRoundedSumOfRan ==
    pc = "done" =>
        /\ Len(results) = Len(calls)
        /\ outcome.usage.total_tokens = RanTokens(results)
        /\ outcome.usage.requests = RanRequests(results)
        /\ 2 * (outcome.usage.estimated_cost_usd * CostUnitsPerMicroUsd
                - RanCost(results, pricing)) <= CostUnitsPerMicroUsd
        /\ 2 * (RanCost(results, pricing)
                - outcome.usage.estimated_cost_usd * CostUnitsPerMicroUsd)
              <= CostUnitsPerMicroUsd
        /\ Len(outcome.warnings) <= Len(results)

\* a run that skipped the reading plan and whose cost is not a whole number
\* of micro-dollars
C6_Witness ==
    /\ pc = "done"
    /\ ~Invoked(ReadingPlanAgent)
    /\ DeepDiveCount >= 1
    /\ RanCost(results, pricing) % CostUnitsPerMicroUsd # 0
    /\ outcome.usage.total_tokens > 0

\* C7: the invocations of a run are sequential and ordered: the overview
\* agent is invoked first and once, then at most max_iters deep dives, then
\* at most one reading plan, which is the last invocation; at most one
\* invocation is outstanding, and none when the run returns.
C7_StageOrder ==
    /\ \A i \in DOMAIN calls :
          /\ (calls[i] = OverviewAgent) <=> (i = 1)
          /\ calls[i] = ReadingPlanAgent => i = Len(calls)
    /\ DeepDiveCount <= max_iters
    /\ Len(results) <= Len(calls)
    /\ Len(calls) <= Len(results) + 1
    /\ pc = "done" => (Len(calls) >= 1 /\ Len(results) = Len(calls))

\* a run of overview, max_iters >= 2 deep dives and the reading plan
C7_Witness ==
    /\ pc = "done"
    /\ max_iters >= 2
    /\ DeepDiveCount = max_iters
    /\ Len(calls) = max_iters + 2

\* C8: the repository context is built exactly once per run, before the
\* first model invocation, with the ref the run was given.
C8_ContextBuiltOnce ==
    /\ Len(context_calls) <= 1
    /\ pc # "start" => context_calls = <<ref>>
    /\ calls # <<>> => (context_calls = <<ref>> /\ context_failure = "none")

\* a returned run with deep dives and a reading plan, started with a ref
C8_Witness ==
    /\ pc = "done"
    /\ ref = "release/v1"
    /\ DeepDiveCount >= 2
    /\ Invoked(ReadingPlanAgent)
    /\ Len(context_calls) = 1

\* C9: when the metadata lookup or the tree retrieval of the context build
\* raises, run_briefing_loop raises that error and makes no model invocation.
C9_ContextFailureIsFatal ==
    context_failure \in {"metadata", "tree"} =>
        /\ pc = "raised"
        /\ raised = "RuntimeError"
        /\ calls = <<>>

\* the tree retrieval failed in a run started with a ref
C9_Witness ==
    /\ context_failure = "tree"
    /\ ref # ""
    /\ pc = "raised"

\* C10: when the loop is left with a ceiling reached, the run returns an
\* outcome instead of raising: briefing_markdown is the briefing of the last
\* overview or deep-dive stage that ran, reading_plan_markdown is empty and
\* usage is the sum over the stages that ran.
C10_PartialOutcome ==
    [][(pc = "loop" /\ CeilingReached) =>
         /\ pc' = "done"
         /\ calls' = calls
         /\ outcome'.briefing_markdown = StageBriefing(calls[Len(calls)], last_text)
         /\ outcome'.reading_plan_markdown = ""
         /\ outcome'.usage.total_tokens = RanTokens(results)
         /\ outcome'.usage.requests = RanRequests(results)
         /\ outcome'.stopped_reason = "budget_exceeded"]_vars

\* a run stopped by a ceiling after a deep dive that replaced the briefing
C10_Witness ==
    /\ pc = "done"
    /\ "reading plan" \in refused
    /\ DeepDiveCount >= 1
    /\ outcome.briefing_markdown = "deep"
    /\ outcome.reading_plan_markdown = ""

\* ------------------------------------------------- what safe_get_json did
\* a GET is made in this step
GetMade == gets' = gets + 1

\* the call goes on to another pass after this step
Retried == h_pc' = "loop"

RetryableStatus(status) == status = 429 \/ status \in 500..599

SleptOnce(duration) == sleeps' = Append(sleeps, duration)

NewlinesIn(text) == Cardinality({i \in 1..Len(text) : text[i] = "\n"})

\* C11: safe_get_json retries a response only when its status is 429 or 5xx,
\* makes at most 4 GETs (3 retries), and when the 4th GET also returns a
\* retryable status it raises an error wrapping that last failure.
C11_RetryOnlyTransient ==
    [][GetMade =>
         /\ gets' <= MAX_RETRIES + 1
         /\ (Retried /\ last_response'.conn = "ok")
                => RetryableStatus(last_response'.status)
         /\ (gets' = 4 /\ last_response'.conn = "ok"
                       /\ RetryableStatus(last_response'.status))
                => /\ h_pc' = "raised"
                   /\ h_out'.kind = "request_failed"
                   /\ h_out'.cause = HTTPError(last_response'.status)]_vars

C11_Witness ==
    /\ h_pc = "raised"
    /\ gets = 4
    /\ Len(sleeps) = 3
    /\ last_response.status = 502
    /\ h_out.cause = HTTPError(502)

C13_RetryAfterIsMin ==
    [][(GetMade /\ Retried) =>
         LET response == last_response'
             numeric == /\ response.conn = "ok"
                        /\ response.status = 429
                        /\ response.headers.retry_after # None
                        /\ ParseFloat(response.headers.retry_after).ok
         IN  IF numeric
             THEN SleptOnce(Min(ParseFloat(response.headers.retry_after).ms,
                                10000))
             ELSE \E jitter \in 0..50 :
                      SleptOnce(500 * (2 ^ attempt) + jitter)]_vars

\* C13 amended: the Retry-After sleep is the header's value clamped to the
\* range 0 to 10 seconds, so a negative value sleeps 0 seconds; the backoff
\* of every other retried response is as stated.
C13_RetryAfterIsClamped ==
    [][(GetMade /\ Retried) =>
         LET response == last_response'
             numeric == /\ response.conn = "ok"
                        /\ response.status = 429
                        /\ response.headers.retry_after # None
                        /\ ParseFloat(response.headers.retry_after).ok
             seconds == ParseFloat(response.headers.retry_after).ms
         IN  IF numeric
             THEN SleptOnce(IF seconds < 0 THEN 0
                            ELSE IF seconds > 10000 THEN 10000 ELSE seconds)
             ELSE \E jitter \in 0..50 :
                      SleptOnce(500 * (2 ^ attempt) + jitter)]_vars

C13_Witness ==
    /\ h_pc = "done"
    /\ Len(sleeps) = 3
    /\ sleeps[1] = 10000
    /\ sleeps[2] = 0
    /\ sleeps[3] >= 2000

\* C14: a 200 response whose body is not JSON raises an error that names the
\* status code and carries a snippet of at most 200 body characters; the
\* response is not retried, so a call that gets it first makes exactly one GET.
C14_NonJsonNotRetried ==
    [][/\ (GetMade /\ last_response'.conn = "ok"
                   /\ last_response'.status = 200
                   /\ ~last_response'.json_ok)
            => LET text == last_response'.text
                   kept == SubSeq(text, 1, Min(Len(text), 200))
               IN  /\ h_pc' = "raised"
                   /\ sleeps' = sleeps
                   /\ h_out'.kind = "non_json"
                   /\ h_out'.status = 200
                   /\ Len(h_out'.snippet) = Len(kept) + NewlinesIn(kept)
                   /\ \A i \in 1..Len(h_out'.snippet) :
                          h_out'.snippet[i] # "\n"
                   /\ gets = 0 => gets' = 1
       /\ (h_pc = "raised" /\ h_out.kind = "non_json") => gets' = gets]_vars

C14_Witness ==
    /\ h_pc = "raised"
    /\ h_out.kind = "non_json"
    /\ gets = 1
    /\ Len(last_response.text) > SNIPPET_CHARS
    /\ Len(h_out.snippet) = SNIPPET_CHARS + 4

\* ------------------------------------------ what the library functions did
Returned(name) == fn = name /\ fn_pc = "return"

\* the sum of a field over the entries, an absent field counting as nothing
FieldSum(entries, name) ==
    LET upto[i \in 0..Len(entries)] ==
            IF i = 0 THEN 0
            ELSE upto[i - 1]
                 + (IF name \in DOMAIN entries[i] THEN entries[i][name] ELSE 0)
    IN  upto[Len(entries)]

\* C15: for every list of usage entries, usage_totals returns total_tokens
\* equal to input_tokens + output_tokens (cached input tokens not added),
\* each count being the sum of the entries' field with an absent field
\* counted as 0, and requests equal to the number of entries.
C15_UsageTotals ==
    Returned("usage_totals") =>
        LET entries == fn_in.entries
        IN  /\ fn_out.input_tokens = FieldSum(entries, "input_tokens")
            /\ fn_out.output_tokens = FieldSum(entries, "output_tokens")
            /\ fn_out.cached_input_tokens
                   = FieldSum(entries, "cached_input_tokens")
            /\ fn_out.total_tokens
                   = fn_out.input_tokens + fn_out.output_tokens
            /\ fn_out.requests = Len(entries)

C15_Witness ==
    /\ Returned("usage_totals")
    /\ Len(fn_in.entries) = 2
    /\ "output_tokens" \notin DOMAIN fn_in.entries[1]
    /\ "cached_input_tokens" \in DOMAIN fn_in.entries[2]
    /\ fn_out.cached_input_tokens > 0
    /\ fn_out.total_tokens = 3
    /\ fn_out.requests = 2

\* C16: truncate(text, n) returns the empty string when n <= 0; returns
\* text unchanged when len(text) <= n; when text is longer than n and
\* 0 < n < len(marker) returns the first n characters of the marker;
\* otherwise returns a string of length exactly n made of a prefix of text
\* followed by the truncation marker.
C16_Truncate ==
    Returned("truncate") =>
        LET text == fn_in.text
            n == fn_in.max_chars
            marker == TruncationSuffix
        IN  IF n <= 0 THEN fn_out = <<>>
            ELSE IF Len(text) <= n THEN fn_out = text
            ELSE IF n < Len(marker) THEN fn_out = SubSeq(marker, 1, n)
            ELSE /\ Len(fn_out) = n
                 /\ \E k \in 0..Len(text) :
                        fn_out = SubSeq(text, 1, k) \o marker

C16_Witness ==
    /\ Returned("truncate")
    /\ Len(fn_in.text) = 21
    /\ fn_in.max_chars = 20
    /\ fn_out = <<"a", "b">> \o TruncationSuffix

\* the lines of a text, none for the empty text
Lines(text) ==
    LET breaks == {i \in 1..Len(text) : text[i] = "\n"}
        nth(j) == IF j = 0 THEN 0
                  ELSE IF j = Cardinality(breaks) + 1 THEN Len(text) + 1
                  ELSE CHOOSE i \in breaks :
                           Cardinality({k \in breaks : k < i}) = j - 1
    IN  IF text = <<>> THEN <<>>
        ELSE [j \in 1..(Cardinality(breaks) + 1) |->
                 SubSeq(text, nth(j - 1) + 1, nth(j) - 1)]

\* a comes before b in the order (depth, then path)
DepthThenPath(a, b) ==
    LET depth(p) == Cardinality({i \in 1..Len(p) : p[i] = "/"})
    IN  depth(a) < depth(b) \/ (depth(a) = depth(b) /\ StrLess(a, b))

Members(seq) == {seq[i] : i \in 1..Len(seq)}

\* C18 as stated: pick_key_files returns the conventional top-level files
\* present as files, in the order of the fixed list, then the files matching
\* an entrypoint basename, then the md/rst files under a docs/ directory,
\* without duplicates, cut to at most max_files entries.
C18_PriorityOrder ==
    Returned("pick_key_files") =>
        LET tree_index == fn_in.tree_index
            blobs == {path \in DOMAIN tree_index : tree_index[path] = "blob"}
            conventional == SelectSeq(candidates, LAMBDA c : c \in blobs)
            entrypoints == {path \in blobs : is_entrypoint(Lower(path))}
            docs == {path \in blobs : is_docs_file(Lower(path))}
        IN  \E first \in Enumerations(entrypoints) :
            \E second \in Enumerations(docs \ entrypoints) :
                fn_out = Prefix(conventional \o first \o second,
                                fn_in.max_files)

\* how many of the requests went to an endpoint
RequestsTo(endpoint, requests) ==
    Cardinality({i \in 1..Len(requests) : requests[i].endpoint = endpoint})

NonBlank(path) == \E i \in 1..Len(path) : path[i] \notin {" ", "\t", "\n"}

DecodedSample == <<"h", "e", "l", "l", "o">>

\* the key files of a context build each have their entry: empty when the
\* fetch failed, the content otherwise, and each was requested
KeyFileFailuresAreLocal ==
    Returned("fetch_repo_context_impl") =>
        LET mandatory_ok ==
                /\ fn_in.ref # "" \/ fn_in.meta_resp # "RuntimeError"
                /\ \/ fn_in.branch_resp = "sha"
                   \/ fn_in.branch_resp = "RuntimeError" /\ fn_in.commit_resp = "sha"
                /\ fn_in.tree_resp = "tree"
        IN  mandatory_ok =>
              /\ fn_out.raised = "none"
              /\ DOMAIN fn_out.key_file_contents = Members(fn_out.key_files)
              /\ \A path \in Members(fn_out.key_files) :
                     /\ \E i \in 1..Len(fn_out.requests) :
                            fn_out.requests[i] = Request("contents", path)
                     /\ fn_out.key_file_contents[path] =
                            IF fn_in.replies[path] = "file"
                            THEN truncate(DecodedSample, fn_in.ceilings.max_file_chars)
                            ELSE <<>>

\* the entry of a key of the result of fetch_files_impl comes from the last
\* request for it: a placeholder naming the path when that request failed
RequestedFailuresAreLocal ==
    Returned("fetch_files_impl") =>
        LET paths == fn_in.paths
            resolved == \/ fn_in.ref # ""
                        \/ fn_in.default_branch # None
                        \/ fn_in.meta_resp # "RuntimeError"
            asked == {i \in 1..Len(paths) : cleaned_path(paths[i]) # <<>>}
        IN  resolved =>
              /\ fn_out.raised = "none"
              /\ RequestsTo("contents", fn_out.requests) = Cardinality(asked)
              /\ \A key \in DOMAIN fn_out.files :
                     LET last == CHOOSE i \in asked :
                                     /\ cleaned_path(paths[i]) = key
                                     /\ \A j \in asked :
                                            cleaned_path(paths[j]) = key => j <= i
                         entry == fn_out.files[key]
                     IN  CASE fn_in.replies[last] = "file" -> entry = DecodedSample
                           [] fn_in.replies[last] = "dir" -> entry = <<>>
                           [] OTHER ->
                                /\ Len(entry) >= 17 + Len(key)
                                /\ SubSeq(entry, 1, 17) = <<"[", "C", "o", "u", "l", "d", " ", "n", "o", "t", " ", "f", "e", "t", "c", "h", " ">>
                                /\ SubSeq(entry, 18, 17 + Len(key)) = key

\* C19 as stated: a failure while fetching one file affects only that file's
\* entry (empty in the context build, a placeholder in fetch_files_impl),
\* every other file is still fetched, the operation returns normally, and
\* every requested non-blank path has an entry in the result.
C19_EveryNonBlankPathHasEntry ==
    /\ KeyFileFailuresAreLocal
    /\ RequestedFailuresAreLocal
    /\ (Returned("fetch_files_impl") /\ fn_out.raised = "none") =>
           \A i \in 1..Len(fn_in.paths) :
               NonBlank(fn_in.paths[i]) =>
                   cleaned_path(fn_in.paths[i]) \in DOMAIN fn_out.files

\* C19 amended: the same, but the paths that have an entry are those with
\* something left after stripping whitespace and then leading slashes, and
\* the entry is under the stripped path; a lone "/" has none.
C19_EveryCleanedPathHasEntry ==
    /\ KeyFileFailuresAreLocal
    /\ RequestedFailuresAreLocal
    /\ (Returned("fetch_files_impl") /\ fn_out.raised = "none") =>
           DOMAIN fn_out.files =
               {cleaned_path(fn_in.paths[i]) : i \in 1..Len(fn_in.paths)}
               \ {<<>>}

C19_Witness ==
    /\ Returned("fetch_files_impl")
    /\ fn_in.paths = <<<<"a", ".", "p", "y">>, <<"b", "/", "c", ".", "m", "d">>>>
    /\ fn_in.replies = <<"RuntimeError", "file">>
    /\ fn_out.raised = "none"
    /\ fn_out.files[<<"a", ".", "p", "y">>] = <<"[", "C", "o", "u", "l", "d", " ", "n", "o", "t", " ", "f", "e", "t", "c", "h", " ", "a", ".", "p", "y", ":", " ", "R", "u", "n", "t", "i", "m", "e", "E", "r", "r", "o", "r", "]">>
    /\ fn_out.files[<<"b", "/", "c", ".", "m", "d">>] = DecodedSample

\* C20: with an explicit ref fetch_repo_context_impl makes no metadata request
\* and the context's ref is the given ref; with no ref it makes exactly one
\* metadata request and the ref is the default branch the metadata reports.
\* fetch_files_impl makes no metadata request when a ref or a default branch
\* is supplied.
C20_MetadataOnlyWithoutRef ==
    /\ Returned("fetch_repo_context_impl") =>
           IF fn_in.ref # ""
           THEN /\ RequestsTo("repo", fn_out.requests) = 0
                /\ fn_out.raised = "none" => fn_out.ref = fn_in.ref
           ELSE /\ RequestsTo("repo", fn_out.requests) = 1
                /\ (fn_out.raised = "none"
                      /\ fn_in.meta_resp \in {"main", "develop"})
                       => fn_out.ref = fn_in.meta_resp
    /\ (Returned("fetch_files_impl")
          /\ (fn_in.ref # "" \/ fn_in.default_branch # None))
           => RequestsTo("repo", fn_out.requests) = 0

C20_Witness ==
    /\ Returned("fetch_repo_context_impl")
    /\ fn_in.ref = ""
    /\ fn_in.meta_resp = "develop"
    /\ fn_out.raised = "none"
    /\ fn_out.ref = "develop"
    /\ fn_out.requests[1] = Request("repo", <<>>)
    /\ Len(fn_out.key_files) = 2

\* two dictionaries with the same keys, the same types of values and the
\* same strings
SameDict(a, b) ==
    /\ DOMAIN a = DOMAIN b
    /\ \A key \in DOMAIN a :
           /\ a[key].t = b[key].t
           /\ a[key].t = "str" => a[key].v = b[key].v

\* the first well-formed JSON object inside a text, "" when it has none
FirstObjectIn(text) ==
    CASE text = TxtFenced -> TxtFencedObject
      [] text = TxtEmbedded -> TxtEmbeddedObject
      [] JsonLoads(text).t = "dict" -> text
      [] OTHER -> ""

\* C21 as stated: json_or_fallback returns the first well-formed JSON object
\* embedded anywhere in the text, also inside a code fence or between prose,
\* and the fallback dictionary {fallback_key: text, files_to_inspect: []}
\* only when the text holds no such object.
C21_FirstEmbeddedObject ==
    Returned("json_or_fallback") =>
        LET object == FirstObjectIn(fn_in.text)
        IN  IF object # ""
            THEN SameDict(fn_out, JsonLoads(object).v)
            ELSE SameDict(fn_out,
                          (fn_in.fallback_key :> JStr(fn_in.text))
                          @@ ("files_to_inspect" :> JList(<<>>)))


\* a JSON object without a string briefing_markdown or without a
\* files_to_inspect that is a list of strings
LacksOverviewFields(obj) ==
    \/ "briefing_markdown" \notin DOMAIN obj
    \/ obj["briefing_markdown"].t # "str"
    \/ "files_to_inspect" \notin DOMAIN obj
    \/ obj["files_to_inspect"].t # "list"
    \/ \E i \in DOMAIN obj["files_to_inspect"].v : obj["files_to_inspect"].v[i].t # "str"

\* the text is a JSON object the overview stage rejects
RejectedOverviewObject(text) ==
    /\ JsonLoads(text).t = "dict"
    /\ LacksOverviewFields(JsonLoads(text).v)

\* C22: when the overview output parses as a JSON object but lacks a string
\* briefing_markdown or a list-of-strings files_to_inspect, a warning naming
\* the overview stage is appended, the raw text becomes the briefing, the
\* pending files_to_inspect is the empty list, and no deep-dive iteration
\* starts, even if the rejected object listed files.
C22_RejectedOverviewObject ==
    [][/\ (pc = "overview_wait" /\ Len(results') = Len(results) + 1
           /\ RejectedOverviewObject(last_text')) =>
              /\ pc' = "loop"
              /\ warnings' = Append(warnings, Warning("overview", 0))
              /\ briefing' = last_text'
              /\ files_to_inspect'.t = "list"
              /\ Len(files_to_inspect'.v) = 0
       /\ (pc = "loop" /\ it = 0 /\ RejectedOverviewObject(last_text)) =>
              (calls' = calls \/ calls'[Len(calls')] # DeepDiveAgent)]_vars

\* a finished run whose overview returned an object that lists a file but has
\* no briefing, with iterations allowed and no ceiling reached
C22_Witness ==
    /\ pc = "done"
    /\ max_iters >= 1
    /\ ~ever_exceeded
    /\ briefing = TxtFilesOnly
    /\ warnings # <<>>
    /\ warnings[1] = Warning("overview", 0)
    /\ ~Invoked(DeepDiveAgent)

\* the text is a JSON object a deep-dive stage accepts: a string
\* briefing_markdown and, when present, a files_to_inspect list of strings
DeepDiveSuccess(text) ==
    LET obj == JsonLoads(text)
    IN  /\ obj.t = "dict"
        /\ "briefing_markdown" \in DOMAIN obj.v
        /\ obj.v["briefing_markdown"].t = "str"
        /\ "files_to_inspect" \in DOMAIN obj.v =>
              /\ obj.v["files_to_inspect"].t = "list"
              /\ \A i \in DOMAIN obj.v["files_to_inspect"].v :
                    obj.v["files_to_inspect"].v[i].t = "str"

\* the step is the return of an overview or deep-dive stage that was processed
StageProcessed(stage_pc) ==
    /\ pc = stage_pc
    /\ Len(results') = Len(results) + 1
    /\ pc' = "loop"

ListOfStrings(value) ==
    /\ value.t = "list"
    /\ \A i \in DOMAIN value.v : value.v[i].t = "str"

\* C24: once the overview output has been processed, the pending
\* files_to_inspect is a list, never null or a value of another type, and
\* the list a deep-dive prompt is built from holds strings only.
C24_PendingFilesIsStringList ==
    pc \in {"loop", "deep_wait", "rp_wait", "done"} => ListOfStrings(files_to_inspect)

\* a deep dive is in flight on a non-empty list, the preceding deep dive
\* having returned an object that lists a file
C24_Witness ==
    /\ pc = "deep_wait"
    /\ it = 2
    /\ last_text = TxtMore
    /\ Len(files_to_inspect.v) = 1
    /\ files_to_inspect.v[1].t = "str"

\* the default cached-input rate, 0.25 USD per 1M tokens
DefaultCachedRate == DEFAULT_PRICING_PER_1M["_default"]["cached_in"]

BothOverridesGiven == fn_in.price_in.given /\ fn_in.price_out.given

\* both the input and the output variable hold a non-empty value
BothEnvSet(env) ==
    /\ env.price_in \notin {None, ""}
    /\ env.price_out \notin {None, ""}

\* the rates an environment gives, the default cached rate when it has none
EnvRates(env) ==
    Pricing(EnvFloat(env.price_in), EnvFloat(env.price_out),
            IF env.price_cached_in \in {None, ""} THEN DefaultCachedRate
            ELSE EnvFloat(env.price_cached_in))

C28_EnvReadAtCallTime ==
    (Returned("for_model") /\ ~BothOverridesGiven /\ BothEnvSet(fn_in.call_env)) =>
        fn_out = EnvRates(fn_in.call_env)

\* the reading plan of an outcome, empty when the outcome has none
PlanOf(result) ==
    IF "reading_plan_markdown" \in DOMAIN result THEN result["reading_plan_markdown"] ELSE <<>>

\* the text has the four footer lines of the outcome's usage, each on a line
\* of its own
HasUsageFooter(text, result) ==
    LET lines == Lines(text)
        has(line) == \E i \in DOMAIN lines : lines[i] = line
    IN  /\ has(<<"-", " ", "E", "s", "t", "i", "m", "a", "t", "e", "d", " ", "c", "o", "s", "t", ":", " ", "$">> \o FloatStr(result["usage"].estimated_cost_usd))
        /\ has(<<"-", " ", "T", "o", "k", "e", "n", "s", ":", " ">> \o IntStr(result["usage"].total_tokens))
        /\ has(<<"-", " ", "R", "e", "q", "u", "e", "s", "t", "s", ":", " ">> \o IntStr(result["usage"].requests))
        /\ has(<<"-", " ", "S", "t", "o", "p", "p", "e", "d", " ", "r", "e", "a", "s", "o", "n", ":", " ">> \o ReasonStr(result["stopped_reason"]))

\* C29: in markdown format the rendered text has the reading plan when the
\* plan is non-empty; with an empty plan it has the note that the reading
\* plan was skipped when stopped_reason is budget_exceeded, and neither a
\* plan nor the note when stopped_reason is completed; the usage footer
\* (cost, tokens, requests, stopped reason) is there in every case.
C29_MarkdownParts ==
    (Returned("render_output") /\ fn_in.output_format = "markdown") =>
        LET result == fn_in.result
            plan == PlanOf(result)
            brief == RStripChars(result["briefing_markdown"], Whitespace)
        IN  /\ HasUsageFooter(fn_out, result)
            /\ plan # <<>> => Contains(fn_out, RStripChars(plan, Whitespace))
            /\ (plan = <<>> /\ result["stopped_reason"] = "budget_exceeded") =>
                  Contains(fn_out, SkippedNote)
            /\ (plan = <<>> /\ result["stopped_reason"] = "completed") =>
                  /\ ~Contains(fn_out, SkippedNote)
                  /\ Len(fn_out) >= Len(brief) + 7
                  /\ SubSeq(fn_out, 1, Len(brief) + 7)
                        = brief \o <<"\n", "\n", "-", "-", "-", "\n", "\n">>

\* an outcome stopped on the budget with an empty reading plan was rendered
\* in markdown with the skipped note
C29_Witness ==
    /\ Returned("render_output")
    /\ fn_in.output_format = "markdown"
    /\ "reading_plan_markdown" \in DOMAIN fn_in.result
    /\ fn_in.result["reading_plan_markdown"] = <<>>
    /\ fn_in.result["stopped_reason"] = "budget_exceeded"
    /\ Contains(fn_out, SkippedNote)

\* C30 as stated: with the path None or "-" the text and a newline go to
\* standard output and no file is written; with any other path the text and
\* a newline are written to that file, its missing parent directories
\* having been created.
C30_StdoutForNoneAndDash ==
    Returned("write_output") =>
        LET written == fn_in.output_text \o <<"\n">>
        IN  IF fn_in.output_path \in {None, "-"}
            THEN fn_out.stdout = written /\ fn_out.files = {} /\ fn_out.mkdir = {}
            ELSE /\ fn_out.stdout = <<>>
                 /\ fn_out.files = {[path |-> fn_in.output_path, text |-> written]}
                 /\ \A i \in DOMAIN ParentDirs(fn_in.output_path) :
                       ParentDirs(fn_in.output_path)[i] \in fn_in.dirs \cup fn_out.mkdir

\* the command line gives exactly one of --price-in and --price-out
OnePriceGiven == fn_in.args.price_in.given # fn_in.args.price_out.given

\* an input or configuration error of a call of main that names a repository
InputError ==
    \/ fn_in.api_key \in {None, "", "  "}
    \/ fn_in.args.repo_url = UrlSsh
    \/ OnePriceGiven

RunCalled == fn_out.run_calls # <<>>

C31_ContextWithinCeilings ==
    (Returned("fetch_repo_context_impl") /\ fn_out.raised = "none") =>
        LET ceilings == fn_in.ceilings
            contents == fn_out.key_file_contents
        IN  /\ Len(fn_out.readme) <= ceilings.max_readme_chars
            /\ \A path \in DOMAIN contents : Len(contents[path]) <= ceilings.max_file_chars
            /\ Len(fn_out.key_files) <= fn_in.max_key_files
            /\ {fn_out.key_files[i] : i \in DOMAIN fn_out.key_files} = DOMAIN contents
            /\ Cardinality(DOMAIN contents) = Len(fn_out.key_files)
            /\ Len(Lines(fn_out.tree_summary)) <= ceilings.max_tree_entries
            /\ ceilings.max_readme_chars = 0 => fn_out.readme = <<>>
            /\ ceilings.max_tree_entries = 0 => fn_out.tree_summary = <<>>
            /\ fn_in.max_key_files = 0 => fn_out.key_files = <<>>

\* a build under ceilings smaller than the README, the key files and the
\* tree: each field is cut to its ceiling
C31_Witness ==
    /\ Returned("fetch_repo_context_impl")
    /\ fn_out.raised = "none"
    /\ fn_in.tree_index = MixedTree
    /\ fn_in.max_key_files = 1
    /\ fn_in.ceilings.max_readme_chars = 3
    /\ fn_in.ceilings.max_file_chars = 4
    /\ fn_in.ceilings.max_tree_entries = 2
    /\ Len(fn_out.readme) = 3
    /\ Len(fn_out.key_files) = 1
    /\ Len(fn_out.key_file_contents[fn_out.key_files[1]]) = 4
    /\ Len(Lines(fn_out.tree_summary)) = 2

\* the tree SHA fetch_repo_tree obtained: that of the branch lookup, or of
\* the commit lookup after a branch lookup that raised
TreeShaObtained ==
    \/ fn_in.branch_resp = "sha"
    \/ fn_in.branch_resp = "RuntimeError" /\ fn_in.commit_resp = "sha"

\* C32: fetch_repo_tree makes the branch lookup first and the commit lookup
\* if and only if the branch lookup raised; the tree listing is requested
\* only after a non-empty tree SHA was obtained, and without one the
\* function raises and makes no tree-listing request.
C32_CommitLookupIffBranchFails ==
    Returned("fetch_repo_tree") =>
        /\ fn_out.requests[1].endpoint = "branches"
        /\ RequestsTo("branches", fn_out.requests) = 1
        /\ RequestsTo("commits", fn_out.requests)
              = IF fn_in.branch_resp = "RuntimeError" THEN 1 ELSE 0
        /\ RequestsTo("git/trees", fn_out.requests) = IF TreeShaObtained THEN 1 ELSE 0
        /\ RequestsTo("git/trees", fn_out.requests) = 1 =>
              fn_out.requests[Len(fn_out.requests)].endpoint = "git/trees"
        /\ ~TreeShaObtained => fn_out.raised = "RuntimeError"

\* the branch lookup raised, the commit lookup gave the SHA and the tree
\* listing followed
C32_Witness ==
    /\ Returned("fetch_repo_tree")
    /\ fn_in.branch_resp = "RuntimeError"
    /\ fn_in.commit_resp = "sha"
    /\ fn_out.raised = "none"
    /\ Len(fn_out.requests) = 3
    /\ fn_out.requests[2].endpoint = "commits"

\* the positions of FinalTextAttrs at which the result has a non-blank string
PopulatedAttrs(result) ==
    {i \in 1..Len(FinalTextAttrs) :
        /\ FinalTextAttrs[i] \in DOMAIN result.attrs
        /\ result.attrs[FinalTextAttrs[i]] \notin {"", " ", "  "}}

\* the messages of the result that have a non-blank text
MessagesWithText(result) ==
    {i \in 1..Len(result.messages) : message_text(result.messages[i]) # ""}

\* the greatest and the least member of a non-empty set of numbers
Greatest(numbers) == CHOOSE n \in numbers : \A other \in numbers : other <= n
Least(numbers) == CHOOSE n \in numbers : \A other \in numbers : n <= other

\* the step is the return of a model invocation
InvocationReturns ==
    /\ pc \in {"overview_wait", "deep_wait", "rp_wait"}
    /\ Len(results') = Len(results) + 1

\* C33: the final text of a returned invocation is the first non-blank
\* string among final_output, output, output_text, final_output_text and
\* text, in that order; with none, the text of the latest message that has
\* a non-blank one; with neither, AttributeError is raised out of
\* run_briefing_loop, no warning and no fallback being made of it, after the
\* usage of that invocation was added to the totals.
C33_FinalTextOrFatal ==
    [][InvocationReturns =>
         LET result == last_result'
         IN  /\ results' = Append(results, result.entries)
             /\ accumulated_tokens' = RanTokens(results')
             /\ total_requests' >= total_requests
             /\ IF PopulatedAttrs(result) # {}
                THEN /\ pc' # "raised"
                     /\ last_text' = result.attrs[FinalTextAttrs[Least(PopulatedAttrs(result))]]
                ELSE IF MessagesWithText(result) # {}
                THEN /\ pc' # "raised"
                     /\ last_text'
                          = message_text(result.messages[Greatest(MessagesWithText(result))])
                ELSE /\ pc' = "raised"
                     /\ raised' = "AttributeError"
                     /\ warnings' = warnings
                     /\ briefing' = briefing
                     /\ outcome' = NoOutcome]_vars

\* a deep dive returned a result with no populated attribute and no message
\* text: the run raised, the tokens of that result counted
C33_Witness ==
    /\ pc = "raised"
    /\ raised = "AttributeError"
    /\ calls[Len(calls)] = DeepDiveAgent
    /\ Len(results) = Len(calls)
    /\ DOMAIN last_result.attrs = {}
    /\ Len(last_result.messages) = 2
    /\ accumulated_tokens = RanTokens(results)
    /\ accumulated_tokens >= 2
    /\ outcome = NoOutcome

\* what the build's request was answered with
ReplyTo(request) ==
    CASE request.endpoint = "repo" -> fn_in.meta_resp
      [] request.endpoint = "branches" -> fn_in.branch_resp
      [] request.endpoint = "commits" -> fn_in.commit_resp
      [] request.endpoint = "git/trees" -> fn_in.tree_resp
      [] request.endpoint = "contents" -> fn_in.replies[request.path]
      [] OTHER -> fn_in.readme_reply

\* the requests of the build that were answered with the rate-limit error
RateLimitedRequests ==
    {i \in 1..Len(fn_out.requests) : ReplyTo(fn_out.requests[i]) = "RuntimeError"}

\* C34 as stated: a rate-limit-exhausted response to any request of the
\* context build makes the build raise, and the request that got it is the
\* last request of the build.
C34_RateLimitFatalEverywhere ==
    (Returned("fetch_repo_context_impl") /\ fn_in.runtime_error = "rate_limit"
       /\ RateLimitedRequests # {}) =>
        /\ fn_out.raised = "RuntimeError"
        /\ RateLimitedRequests = {Len(fn_out.requests)}

\* the numbers of engine invocations, GET attempts and sleeps stay within
\* max_iters + 2, MAX_RETRIES + 1 and MAX_RETRIES
WithinResourceBounds ==
    /\ Len(calls) <= max_iters + 2
    /\ gets <= MAX_RETRIES + 1
    /\ Len(sleeps) <= MAX_RETRIES

\* C35 as stated: once the context is built, a run in which no invocation raises
\* reaches DONE and returns, within max_iters + 2 invocations; a call of
\* safe_get_json returns or raises within 4 GET attempts and 3 sleeps.
C35_RunReachesDone ==
    /\ []WithinResourceBounds
    /\ (pc = "overview") ~> (pc = "done" \/ raised = "RunnerError")
    /\ (h_pc = "loop") ~> (h_pc \in {"done", "raised"})

\* C35, amended: every run of run_briefing_loop ends, by returning at DONE or
\* by raising (a failed context build, an invocation that raises, a result
\* without final text), within max_iters + 2 invocations; a call of
\* safe_get_json returns or raises within 4 GET attempts and 3 sleeps.
C35_RunTerminates ==
    /\ []WithinResourceBounds
    /\ (pc = "start") ~> (pc \in {"done", "raised"})
    /\ (h_pc = "loop") ~> (h_pc \in {"done", "raised"})

C35_Witness ==
    /\ pc = "done"
    /\ max_iters = MaxItersBound
    /\ Len(calls) = max_iters + 2

\* C36: a returned run whose reading-plan stage was skipped has stopped_reason
\* budget_exceeded and an empty reading_plan_markdown; one with stopped_reason
\* completed invoked the reading-plan stage; and a run that used up max_iters
\* with files_to_inspect still non-empty and no ceiling reached is reported
\* as completed.
C36_SkippedPlanMeansBudget ==
    pc = "done" =>
        /\ ~Invoked(ReadingPlanAgent) =>
              /\ outcome.stopped_reason = "budget_exceeded"
              /\ outcome.reading_plan_markdown = ""
        /\ outcome.stopped_reason = "completed" => Invoked(ReadingPlanAgent)
        /\ (it = max_iters /\ Truthy(files_to_inspect) /\ ~ever_exceeded) =>
              outcome.stopped_reason = "completed"

\* a returned run whose deep dive used every iteration, left files to inspect
\* and reached no ceiling
C36_Witness ==
    /\ pc = "done"
    /\ max_iters > 0
    /\ it = max_iters
    /\ Truthy(files_to_inspect)
    /\ ~ever_exceeded
    /\ outcome.stopped_reason = "completed"

\* the loop is at a deep-dive iteration that only the budget refuses
DeepDiveRefusedForBudget ==
    /\ pc = "loop"
    /\ it < max_iters
    /\ Truthy(files_to_inspect)
    /\ CeilingReached

\* C37: no step of a run lowers accumulated_tokens, accumulated_cost or the
\* request count, so a budget check that was true stays true; the step after
\* a deep-dive iteration refused for the budget starts no invocation and
\* returns without a reading plan; and the stopped_reason of a returned run is
\* budget_exceeded when any earlier budget check was true.
C37_BudgetCheckIsMonotone ==
    [][/\ accumulated_tokens' >= accumulated_tokens
       /\ accumulated_cost' >= accumulated_cost
       /\ total_requests' >= total_requests
       /\ CeilingReached => CeilingReached'
       /\ DeepDiveRefusedForBudget =>
             /\ calls' = calls
             /\ pc' = "done"
             /\ outcome'.reading_plan_markdown = ""
       /\ (pc' = "done" /\ (ever_exceeded \/ CeilingReached)) =>
             outcome'.stopped_reason = "budget_exceeded"]_vars

\* a returned run whose first deep dive passed the token ceiling, which was
\* then refused the next iteration and the reading plan
C37_Witness ==
    /\ pc = "done"
    /\ "deep dive" \in refused
    /\ DeepDiveCount = 1
    /\ max_tokens > 0
    /\ RanTokens(SubSeq(results, 1, 1)) < max_tokens
    /\ accumulated_tokens >= max_tokens
    /\ ~Invoked(ReadingPlanAgent)
    /\ outcome.stopped_reason = "budget_exceeded"

\* the GET of the step was answered with a 4xx status other than 429
NonRetryableFailure ==
    /\ last_response'.conn = "ok"
    /\ last_response'.status \in 400..499
    /\ last_response'.status # 429

\* C38: every sleep of safe_get_json is followed by another GET attempt: while
\* the loop runs there are as many sleeps as attempts, a call that has
\* returned or raised made one sleep less than attempts, the attempt that
\* ends the call is followed by no sleep, a 4xx other than 429 raises after
\* its attempt without sleeping, and the loop is never left by exhaustion (the
\* raise after it is not reached).
C38_SleepsBetweenAttempts ==
    [][/\ h_pc' = "loop" =>
             /\ Len(sleeps') = gets'
             /\ attempt' <= MAX_RETRIES
       /\ h_pc' \in {"done", "raised"} =>
             /\ Len(sleeps') = gets' - 1
             /\ sleeps' = sleeps
       /\ NonRetryableFailure =>
             /\ h_pc' = "raised"
             /\ sleeps' = sleeps]_vars

\* a call that returned a value at its third attempt, after two sleeps
C38_Witness ==
    /\ h_pc = "done"
    /\ gets = 3
    /\ Len(sleeps) = 2

\* the GET of the step raised a request exception carrying no HTTP status
ConnectionFailed == last_response' = ConnectionFailure

\* C39: a connection-level failure of the GET at one of the first three
\* attempts is followed by a sleep of BACKOFF_BASE * 2^attempt plus the
\* jitter and by another attempt; at the fourth attempt it makes the call
\* raise, without a sleep, the request-failed error caused by that failure.
C39_ConnectionFailureRetried ==
    [][ConnectionFailed =>
         IF attempt < MAX_RETRIES
         THEN /\ h_pc' = "loop"
              /\ attempt' = attempt + 1
              /\ Len(sleeps') = Len(sleeps) + 1
              /\ sleeps'[Len(sleeps')] - BACKOFF_BASE_MS * Pow2(attempt) \in 0..JITTER_MAX_MS
              /\ last_error' = RequestException
         ELSE /\ h_pc' = "raised"
              /\ gets' = MAX_RETRIES + 1
              /\ sleeps' = sleeps
              /\ h_out'.kind = "request_failed"
              /\ h_out'.cause = RequestException]_vars

\* a call that raised after four connection failures in a row
C39_Witness ==
    /\ h_pc = "raised"
    /\ gets = MAX_RETRIES + 1
    /\ last_response = ConnectionFailure
    /\ Len(sleeps) = MAX_RETRIES
    /\ \A i \in 1..MAX_RETRIES :
          sleeps[i] - BACKOFF_BASE_MS * Pow2(i - 1) \in 0..JITTER_MAX_MS
    /\ h_out.cause = RequestException

\* C40 as stated: the list pick_key_files returns is the one it returns for
\* every order in which the set of present paths can be enumerated.
C40_IterationOrderIrrelevant ==
    Returned("pick_key_files") =>
        \A iteration \in Enumerations(DOMAIN fn_in.tree_index) :
            pick_key_files(fn_in.tree_index, fn_in.max_files, iteration) = fn_out
====
